---- MODULE Spec2Model ----
(***************************************************************************)
(* QuizX: the live session state machine (admin routes and Socket.IO       *)
(* handlers), answer submission with rank bonuses, and final results.      *)
(* One quiz is modelled; its id is the key of quiz_state.  The display-only *)
(* columns (title, start_time, published_at) are left out.                 *)
(* Points are kept in tenths (1.0 point = 10) so that the speed            *)
(* multipliers 1.5 / 1.2 / 0.8 stay integral.                              *)
(***************************************************************************)
EXTENDS Integers, Sequences, FiniteSets, Bags, TLC

\* ------------------------------------------------------------------ bounds
MaxQuestions == 2      \* most Question rows the quiz holds
MaxTime      == 2      \* the clock runs 0..MaxTime (seconds)
MaxPoints    == 80     \* submissions stop once a row would exceed this (tenths)
MaxPublish   == 2      \* publish_count is capped here

\* an optional value (a nullable column, an absent dict key): <<>> or <<v>>
None == <<>>
Some(v) == <<v>>
Val(o) == o[1]

Students   == {"s1"}
JoinCodes  == {"AB12CD", "ZX90QP"}  \* values generate_join_code can return
BasePoints == {10}                 \* Question.points inputs, in tenths
TimeTakenInputs == {2, 8}          \* form field time_taken
OverallTimerInputs == {0, 1}       \* minutes from the form, 0 = left empty
TimeLimitInputs == {10}            \* form field time_limit_<i>, seconds
MinTimeLimit == 5                  \* add_question: max(5, time_limit)
SelectedInputs == {"1", "2"}       \* form field selected_answer
QindexInputs == {0, MaxQuestions - 1}   \* form field qindex: the first index, the last
ShowLeaderboardInputs == {TRUE}    \* form field show_leaderboard_<i>: 'on'
GlobalLeaderboardInputs == {FALSE} \* form field show_leaderboard_global: left unchecked

\* ------------------------------------------------------------------- state
VARIABLES
    quiz,        \* the Quiz row
    questions,   \* the quiz's Question rows, ordered by Question.order
    quiz_state,  \* extensions.quiz_state: None when the quiz has no key, else Some(dict)
    answers,     \* the PartialAnswer rows of the quiz (a bag of rows)
    results,     \* the Result rows of the quiz (a bag of rows)
    now,         \* wall clock, seconds
    emitted,     \* the Socket.IO events the last handler emitted, in order
    lastOp,      \* the last handler run and how it ended
    requests,    \* the attempt_quiz POST requests in flight: each one's place and locals
    waiting_rooms,        \* quiz_events.waiting_rooms: None when the quiz has no key, else Some(list)
    active_participants,  \* extensions.active_participants: None when the quiz has no key, else Some(sid -> name)
    connections  \* the Socket.IO connections: each one's name, whether it is connected and in the waiting room

vars == <<quiz, questions, quiz_state, answers, results, now, emitted, lastOp,
          requests, waiting_rooms, active_participants, connections>>

\* what only the concurrent submissions and the waiting-room handlers touch
side_state == <<requests, waiting_rooms, active_participants, connections>>

\* no request in flight, no connection, and the two dictionaries empty
SideInit ==
    /\ requests = <<>>
    /\ waiting_rooms = <<>>
    /\ active_participants = <<>>
    /\ connections = <<>>

\* ----------------------------------------------------------------- helpers
\* a handler's run: the handler, how it ended (the flash category or the JSON
\* answer), the number of PartialAnswer rows its delete() removed, the form it
\* read (None for the handlers that read none), the remaining_seconds it
\* handed to its template (None for the handlers that render none), the JSON
\* body it answered with (None for the handlers that answer with a page or a
\* redirect), and the place it has reached ("done" once it has returned)
Response(name, outcome, cleared) ==
    [op |-> name, outcome |-> outcome, cleared |-> cleared, form |-> None,
     remaining |-> None, value |-> None, at |-> "done"]

\* a view's run, with the remaining_seconds it rendered
Rendered(name, remaining) == [Response(name, "render", 0) EXCEPT !.remaining = remaining]

Op(name, outcome) == Response(name, outcome, 0)

Event(name, qindex) == [name |-> name, qindex |-> qindex]

\* a start that deletes nothing
KeptAnswers == answers

\* admin.clear_quiz_session_data: delete every PartialAnswer of the quiz
ClearedAnswers == EmptyBag

\* Question.query.filter_by(quiz_id=quiz_id).count()
QuestionCount == Len(questions)

\* quiz.overall_timer and quiz.overall_timer > 0
OverallTimerEnabled == quiz.overall_timer # None /\ Val(quiz.overall_timer) > 0

\* the dict a start writes into quiz_state[quiz_id]
StartedState ==
    [current_qindex     |-> 0,
     started_at         |-> Some(now),
     overall_timer      |-> IF OverallTimerEnabled THEN Some(Val(quiz.overall_timer) * 60) ELSE None,
     overall_started_at |-> IF OverallTimerEnabled THEN Some(now) ELSE None]

\* the dict publish_quiz and quiz_events.admin_next_question create
BareState ==
    [current_qindex |-> 0, started_at |-> None,
     overall_timer |-> None, overall_started_at |-> None]

\* ------------------------------------------------------------------- Init
Init ==
    /\ quiz \in [is_locked : {FALSE}, is_published : {FALSE}, is_active : {FALSE},
                 is_paused : {FALSE}, paused_at : {None}, paused_seconds : {0},
                 publish_count : {0}, join_code : {""},
                 has_timer : BOOLEAN, overall_timer : {None},
                 show_leaderboard_global : {None}]
    /\ questions = <<>>
    /\ quiz_state = None
    /\ answers = EmptyBag
    /\ results = EmptyBag
    /\ now = 0
    /\ emitted = <<>>
    /\ lastOp = Op("create_quiz", "success")
    /\ SideInit

\* time passes between requests
Tick ==
    /\ now < MaxTime
    /\ now' = now + 1
    /\ emitted' = <<>>
    /\ lastOp' = Op("tick", "none")
    /\ UNCHANGED <<quiz, questions, quiz_state, answers, results, side_state>>

\* ------------------------------------------------------- authoring routes
\* the Question row add_question builds from one form entry: the type, the
\* indices of the options marked correct (ascending), the points, the time
\* limit and the per-question leaderboard box
QuestionRow(has_timer, question_type, correct_answers, points, time_limit, show_leaderboard) ==
    [question_type   |-> question_type,
     correct_answers |-> correct_answers,
     points          |-> points,
     show_leaderboard |-> show_leaderboard,
     time_limit      |-> IF has_timer
                         THEN (IF time_limit > MinTimeLimit THEN time_limit
                               ELSE MinTimeLimit)
                         ELSE 0]

\* a single-choice entry whose first option is the correct one
NewQuestion(has_timer, points, time_limit, show_leaderboard) ==
    QuestionRow(has_timer, "multiple-choice", <<1>>, points, time_limit,
                show_leaderboard)

\* admin.add_question (POST)
AddQuestion ==
    \E overwrite \in BOOLEAN, timer \in OverallTimerInputs,
       show_leaderboard_global \in GlobalLeaderboardInputs,
       new \in UNION {[1..k -> BasePoints \X TimeLimitInputs \X ShowLeaderboardInputs] :
                         k \in 0..MaxQuestions} :
        LET kept == IF overwrite THEN <<>> ELSE questions
            rows == [i \in 1..Len(new) |->
                        NewQuestion(quiz.has_timer, new[i][1], new[i][2], new[i][3])]
        IN  /\ Len(kept) + Len(new) <= MaxQuestions
            /\ emitted' = <<>>
            /\ UNCHANGED <<quiz_state, answers, results, now, side_state>>
            /\ IF quiz.is_active
               THEN /\ lastOp' = Op("add_question", "error")
                    /\ UNCHANGED <<quiz, questions>>
               ELSE /\ questions' = kept \o rows
                    \* the settings are committed with the deletion or the new rows
                    /\ quiz' = IF overwrite \/ Len(new) > 0
                               THEN [quiz EXCEPT !.overall_timer =
                                        IF timer > 0 THEN Some(timer) ELSE None,
                                                 !.show_leaderboard_global =
                                        IF show_leaderboard_global THEN Some(TRUE)
                                        ELSE None]
                               ELSE quiz
                    /\ lastOp' = Op("add_question",
                                    IF Len(new) > 0 THEN "success" ELSE "warning")

\* admin.end_questions
EndQuestions ==
    /\ quiz' = [quiz EXCEPT !.is_locked = TRUE]
    /\ emitted' = <<>>
    /\ lastOp' = Op("end_questions", "success")
    /\ UNCHANGED <<questions, quiz_state, answers, results, now, side_state>>

\* ------------------------------------------------------- lifecycle routes
\* a publish that always takes the code just generated
PublishedQuizFreshCode(code) ==
    [quiz EXCEPT !.is_published = TRUE,
                 !.is_active = FALSE,
                 !.publish_count = @ + 1,
                 !.paused_seconds = 0,
                 !.is_paused = FALSE,
                 !.join_code = code]

\* the Quiz row publish_quiz commits
PublishedQuiz(code) ==
    [quiz EXCEPT !.is_published = TRUE,
                 !.is_active = FALSE,
                 !.publish_count = @ + 1,
                 !.paused_seconds = 0,
                 !.is_paused = FALSE,
                 !.join_code = IF @ = "" THEN code ELSE @]

\* the Quiz row pause_quiz commits
PausedQuiz == [quiz EXCEPT !.is_paused = TRUE, !.paused_at = Some(now)]

\* the Quiz row resume_quiz commits
ResumedQuiz ==
    [quiz EXCEPT !.paused_seconds = @ + (now - Val(quiz.paused_at)),
                 !.is_paused = FALSE,
                 !.paused_at = None]

\* a stop that leaves the quiz published
StoppedQuizStillPublished ==
    [quiz EXCEPT !.is_active = FALSE, !.is_paused = FALSE,
                 !.paused_at = None, !.paused_seconds = 0]

\* a stop that leaves the pause flag alone
StoppedQuizStillPaused == [quiz EXCEPT !.is_active = FALSE, !.is_published = FALSE]

\* the Quiz row stop_quiz commits
StoppedQuiz ==
    [quiz EXCEPT !.is_active = FALSE, !.is_published = FALSE, !.is_paused = FALSE,
                 !.paused_at = None, !.paused_seconds = 0]

\* the Quiz row start_quiz and handle_admin_start_quiz commit
StartedQuiz == [quiz EXCEPT !.is_active = TRUE, !.is_paused = FALSE]

\* a reset that also withdraws the quiz, as stop does
ResetQuizRowUnpublishing ==
    [quiz EXCEPT !.is_active = FALSE, !.is_published = FALSE, !.is_paused = FALSE,
                 !.paused_at = None, !.paused_seconds = 0]

\* the Quiz row reset_quiz commits
ResetQuizRow ==
    [quiz EXCEPT !.is_active = FALSE, !.is_paused = FALSE,
                 !.paused_at = None, !.paused_seconds = 0]

\* a publish that turns away only an unlocked quiz
PublishRefusedUnlockedOnly == ~quiz.is_locked

\* publish_quiz's two rejections: not locked, no question
PublishRefused == ~quiz.is_locked \/ QuestionCount = 0

\* admin.publish_quiz
PublishQuiz ==
    /\ quiz.publish_count < MaxPublish
    /\ emitted' = <<>>
    /\ UNCHANGED <<questions, answers, results, now, side_state>>
    /\ IF PublishRefused
       THEN /\ lastOp' = Op("publish_quiz", "error")
            /\ UNCHANGED <<quiz, quiz_state>>
       ELSE \E code \in JoinCodes :
            /\ quiz' = PublishedQuiz(code)
            /\ quiz_state' = Some(BareState)
            /\ lastOp' = Op("publish_quiz", "success")

\* a pause that takes any active quiz
CanPauseWhenActive == quiz.is_active

\* pause_quiz's condition
CanPause == quiz.is_active /\ ~quiz.is_paused

\* admin.pause_quiz
PauseQuiz ==
    /\ emitted' = <<>>
    /\ UNCHANGED <<questions, quiz_state, answers, results, now, side_state>>
    /\ IF CanPause
       THEN /\ quiz' = PausedQuiz
            /\ lastOp' = Op("pause_quiz", "success")
       ELSE /\ lastOp' = Op("pause_quiz", "none")
            /\ UNCHANGED quiz

\* admin.resume_quiz.  now_utc() carries a time zone; paused_at is read back
\* from a DateTime column declared without one.  Where the driver returns it
\* naive, now_utc() - quiz.paused_at raises TypeError before anything is
\* assigned and the request ends in an error; where it returns it aware, the
\* handler runs as written.
ResumeQuiz ==
    /\ emitted' = <<>>
    /\ UNCHANGED <<questions, quiz_state, answers, results, now, side_state>>
    /\ IF quiz.is_active /\ quiz.is_paused
       THEN \/ /\ quiz' = ResumedQuiz
               /\ lastOp' = Op("resume_quiz", "success")
            \/ /\ lastOp' = Op("resume_quiz", "exception")
               /\ UNCHANGED quiz
       ELSE /\ lastOp' = Op("resume_quiz", "none")
            /\ UNCHANGED quiz

\* admin.stop_quiz
StopQuiz ==
    /\ quiz' = StoppedQuiz
    /\ quiz_state' = None
    /\ emitted' = <<Event("quiz_stopped", 0)>>
    /\ lastOp' = Op("stop_quiz", "success")
    /\ UNCHANGED <<questions, answers, results, now, side_state>>

\* admin.start_quiz (the host start route)
StartQuiz ==
    /\ UNCHANGED <<questions, results, now, side_state>>
    /\ IF ~quiz.is_published
       THEN /\ lastOp' = Op("start_quiz", "error")
            /\ emitted' = <<>>
            /\ UNCHANGED <<quiz, quiz_state, answers>>
       ELSE IF QuestionCount = 0
       THEN /\ lastOp' = Op("start_quiz", "error")
            /\ emitted' = <<>>
            /\ UNCHANGED <<quiz, quiz_state, answers>>
       ELSE IF quiz.is_active
       THEN /\ lastOp' = Op("start_quiz", "warning")
            /\ emitted' = <<>>
            /\ UNCHANGED <<quiz, quiz_state, answers>>
       ELSE /\ answers' = ClearedAnswers
            /\ quiz' = StartedQuiz
            /\ quiz_state' = Some(StartedState)
            /\ emitted' = <<Event("begin_quiz", 0), Event("join_quiz_room", 0)>>
            /\ lastOp' = Response("start_quiz", "success", BagCardinality(answers))

\* admin.reset_quiz
ResetQuiz ==
    /\ answers' = ClearedAnswers
    /\ quiz' = ResetQuizRow
    /\ quiz_state' = None
    /\ emitted' = <<>>
    /\ lastOp' = Response("reset_quiz", "success", BagCardinality(answers))
    /\ UNCHANGED <<questions, results, now, side_state>>

\* --------------------------------------------- Socket.IO handlers (admin)
\* admin.handle_admin_start_quiz (the "admin_start_quiz" event)
HandleAdminStartQuiz ==
    /\ answers' = ClearedAnswers
    /\ quiz' = StartedQuiz
    /\ quiz_state' = Some(StartedState)
    /\ emitted' = <<Event("quiz_started", 0)>>
    /\ lastOp' = Response("admin_start_quiz", "success", BagCardinality(answers))
    /\ UNCHANGED <<questions, results, now, side_state>>

\* The handlers registered with socketio.on, in registration order: create_app
\* imports app.routes (admin.py's module-level handlers) and afterwards calls
\* register_socket_events() (quiz_events.py).
Registrations ==
    << [event |-> "admin_start_quiz",        handler |-> "admin.handle_admin_start_quiz"],
       [event |-> "admin_next_question",     handler |-> "admin.handle_admin_next_question"],
       [event |-> "admin_previous_question", handler |-> "admin.handle_admin_previous_question"],
       [event |-> "admin_next_question",     handler |-> "quiz_events.admin_next_question"] >>

\* a dispatch that keeps the first registration of an event
DispatchFirst(event) ==
    LET at == {i \in 1..Len(Registrations) : Registrations[i].event = event}
    IN  Registrations[CHOOSE i \in at : \A j \in at : i <= j].handler

\* socketio.on keeps one handler per event: a later registration replaces the
\* earlier one
Dispatch(event) ==
    LET at == {i \in 1..Len(Registrations) : Registrations[i].event = event}
    IN  Registrations[CHOOSE i \in at : \A j \in at : j <= i].handler

\* an advance whose end test is one too late
AdminNextQuestionPastEnd ==
    LET st      == IF quiz_state = None THEN BareState ELSE Val(quiz_state)
        current == st.current_qindex
    IN  IF current >= QuestionCount
        THEN /\ quiz_state' = Some(st)
             /\ emitted' = <<Event("quiz_finished", 0)>>
        ELSE /\ quiz_state' = Some([st EXCEPT !.current_qindex = current + 1])
             /\ emitted' = <<Event("load_next_question", current + 1)>>

\* an advance that starts over after the last question
AdminNextQuestionWraps ==
    LET st      == IF quiz_state = None THEN BareState ELSE Val(quiz_state)
        current == st.current_qindex
    IN  IF current >= QuestionCount - 1
        THEN /\ quiz_state' = Some([st EXCEPT !.current_qindex = 0])
             /\ emitted' = <<Event("quiz_finished", 0)>>
        ELSE /\ quiz_state' = Some([st EXCEPT !.current_qindex = current + 1])
             /\ emitted' = <<Event("load_next_question", current + 1)>>

\* an advance that returns silently at the last question
AdminNextQuestionSilentEnd ==
    LET st      == IF quiz_state = None THEN BareState ELSE Val(quiz_state)
        current == st.current_qindex
    IN  IF current >= QuestionCount - 1
        THEN /\ quiz_state' = Some(st)
             /\ emitted' = <<>>
        ELSE /\ quiz_state' = Some([st EXCEPT !.current_qindex = current + 1])
             /\ emitted' = <<Event("load_next_question", current + 1)>>

\* quiz_events.admin_next_question
AdminNextQuestion ==
    LET st      == IF quiz_state = None THEN BareState ELSE Val(quiz_state)
        current == st.current_qindex
    IN  IF current >= QuestionCount - 1
        THEN /\ quiz_state' = Some(st)
             /\ emitted' = <<Event("quiz_finished", 0)>>
        ELSE /\ quiz_state' = Some([st EXCEPT !.current_qindex = current + 1])
             /\ emitted' = <<Event("load_next_question", current + 1)>>

\* admin.handle_admin_next_question
HandleAdminNextQuestion ==
    IF quiz_state # None
    THEN /\ Val(quiz_state).current_qindex <= MaxQuestions
         /\ quiz_state' = Some([Val(quiz_state) EXCEPT !.current_qindex = @ + 1])
         /\ emitted' = <<Event("next_question", Val(quiz_state).current_qindex + 1)>>
    ELSE /\ emitted' = <<>>
         /\ UNCHANGED quiz_state

\* the "admin_next_question" event, handled by the handler socketio dispatches to
OnAdminNextQuestion ==
    /\ IF Dispatch("admin_next_question") = "quiz_events.admin_next_question"
       THEN AdminNextQuestion
       ELSE HandleAdminNextQuestion
    /\ lastOp' = Op("admin_next_question", "success")
    /\ UNCHANGED <<quiz, questions, answers, results, now, side_state>>

\* admin.handle_admin_previous_question (the "admin_previous_question" event)
HandleAdminPreviousQuestion ==
    /\ IF quiz_state # None
       THEN LET current == Val(quiz_state).current_qindex
                prev    == IF current - 1 > 0 THEN current - 1 ELSE 0
            IN  /\ quiz_state' = Some([Val(quiz_state) EXCEPT !.current_qindex = prev])
                /\ emitted' = <<Event("previous_question", prev)>>
       ELSE /\ emitted' = <<>>
            /\ UNCHANGED quiz_state
    /\ lastOp' = Op("admin_previous_question", "success")
    /\ UNCHANGED <<quiz, questions, answers, results, now, side_state>>

\* ------------------------------------------------------ answer submission
\* str() of the option indices the model uses
Str(n) == CASE n = 1 -> "1" [] n = 2 -> "2" [] n = 3 -> "3" [] OTHER -> "?"

\* json.loads on the texts a form can carry in selected_answer, followed by the
\* wrapping of a value that is not a list: the list student_answers, or None
\* where json.loads raises
StudentAnswers(selected_answer) ==
    CASE selected_answer = "[]"      -> Some(<<>>)
      [] selected_answer = "[1]"     -> Some(<<1>>)
      [] selected_answer = "[2]"     -> Some(<<2>>)
      [] selected_answer = "[1,2]"   -> Some(<<1, 2>>)
      [] selected_answer = "[2,1]"   -> Some(<<2, 1>>)
      [] selected_answer = "[1,1,2]" -> Some(<<1, 1, 2>>)
      [] selected_answer = "[1,2,3]" -> Some(<<1, 2, 3>>)
      [] selected_answer = "[2,3]"   -> Some(<<2, 3>>)
      [] selected_answer = "1"       -> Some(<<1>>)
      [] selected_answer = "2"       -> Some(<<2>>)
      [] OTHER                       -> None

\* set([str(ans) for ans in markers])
MarkerSet(markers) == {Str(markers[i]) : i \in 1..Len(markers)}

\* a multi-select check that accepts any selection holding every correct option
SupersetOfCorrect(correct_answers, student_answers) ==
    MarkerSet(correct_answers) \subseteq MarkerSet(student_answers)

\* set(student_answers) == set(correct_answers)
SameMarkers(correct_answers, student_answers) ==
    MarkerSet(student_answers) = MarkerSet(correct_answers)

\* student.check_answer_correctness, for the two choice types
check_answer_correctness(question, selected_answer) ==
    IF selected_answer = "" \/ selected_answer = "No Answer"
    THEN FALSE
    ELSE IF question.question_type = "multiple-choice"
    THEN \E i \in 1..Len(question.correct_answers) :
            selected_answer = Str(question.correct_answers[i])
    ELSE IF question.question_type = "checkbox"
    THEN /\ StudentAnswers(selected_answer) # None
         /\ SameMarkers(question.correct_answers, Val(StudentAnswers(selected_answer)))
    ELSE FALSE

\* a score whose speed bands leave their upper bounds to the next band
calculate_question_points_exclusive(question, is_correct, time_taken) ==
    IF ~is_correct THEN 0
    ELSE LET base_points == IF question.points = 0 THEN 10 ELSE question.points
         IN  IF quiz.has_timer /\ question.time_limit > 0
             THEN IF      10 * time_taken < 3 * question.time_limit THEN (base_points * 15) \div 10
                  ELSE IF 10 * time_taken < 6 * question.time_limit THEN (base_points * 12) \div 10
                  ELSE IF 10 * time_taken < 9 * question.time_limit THEN base_points
                  ELSE (base_points * 8) \div 10
             ELSE base_points

\* student.calculate_question_points, in tenths of a point
calculate_question_points(question, is_correct, time_taken) ==
    IF ~is_correct THEN 0
    ELSE LET base_points == IF question.points = 0 THEN 10 ELSE question.points
         IN  IF quiz.has_timer /\ question.time_limit > 0
             THEN IF      10 * time_taken <= 3 * question.time_limit THEN (base_points * 15) \div 10
                  ELSE IF 10 * time_taken <= 6 * question.time_limit THEN (base_points * 12) \div 10
                  ELSE IF 10 * time_taken <= 9 * question.time_limit THEN base_points
                  ELSE (base_points * 8) \div 10
             ELSE base_points

\* sum of a column f over the rows of a bag, each row counted with its multiplicity
RECURSIVE SumOver(_, _)
SumOver(rows, weight) ==
    IF rows = {} THEN 0
    ELSE LET r == CHOOSE x \in rows : TRUE
         IN  weight[r] + SumOver(rows \ {r}, weight)

BagSum(bag, f) == SumOver(DOMAIN bag, [r \in DOMAIN bag |-> bag[r] * f[r]])

\* the rows of a bag that a filter selects, as a bag
Filter(bag, rows) == [r \in rows \cap DOMAIN bag |-> bag[r]]

\* a sequence of rows as a bag
RECURSIVE SeqToBag(_)
SeqToBag(s) == IF s = <<>> THEN EmptyBag ELSE SetToBag({Head(s)}) (+) SeqToBag(Tail(s))

\* a <= b for two sort keys (tuples of integers, compared left to right)
RECURSIVE LexLeq(_, _)
LexLeq(a, b) ==
    IF a = <<>> THEN TRUE
    ELSE IF a[1] # b[1] THEN a[1] < b[1]
    ELSE LexLeq(Tail(a), Tail(b))

\* ORDER BY: every listing of a bag's rows in which the keys never decrease;
\* rows with equal keys come in any order.  key maps each row to its sort key.
RECURSIVE OrderBy(_, _)
OrderBy(bag, key) ==
    IF DOMAIN bag = {} THEN {<<>>}
    ELSE LET least == {r \in DOMAIN bag :
                          \A o \in DOMAIN bag : LexLeq(key[r], key[o])}
         IN  UNION {{<<r>> \o s : s \in OrderBy(bag (-) SetToBag({r}), key)} :
                        r \in least}

\* the rows of a table kept for one (question, participant)
RowsFor(table, question_id, student) ==
    Filter(table, {r \in DOMAIN table :
                        r.question_id = question_id /\ r.student = student})

\* a resubmission that deletes nothing
WithAnswerKept(table, question_id, student) == table

\* PartialAnswer.query.filter_by(quiz_id, question_id, student).delete()
WithoutAnswer(table, question_id, student) ==
    Filter(table, {r \in DOMAIN table :
                        ~(r.question_id = question_id /\ r.student = student)})

\* a ranking pass that awards nothing
NoBonusPoints == <<0, 0, 0>>

\* bonus_points = [3, 2, 1], in tenths
BonusPoints == <<30, 20, 10>>

\* a ranking pass over every answer of the question, correct or not
RankBonusOutcomesAnyAnswer(table, question_id) ==
    LET hit     == {r \in DOMAIN table : r.question_id = question_id}
        ranked  == Filter(table, hit)
        others  == Filter(table, DOMAIN table \ hit)
        ordered == OrderBy(ranked, [r \in DOMAIN ranked |-> <<r.time_taken>>])
    IN  {others (+) SeqToBag([i \in 1..Len(s) |->
                        IF i <= Len(BonusPoints)
                        THEN [s[i] EXCEPT !.points = @ + BonusPoints[i]]
                        ELSE s[i]]) : s \in ordered}

\* ScoringService.update_question_rank_bonuses: the tables the pass can leave.
\* Rows with equal time_taken come back from ORDER BY in an unspecified order.
RankBonusOutcomes(table, question_id) ==
    LET hit     == {r \in DOMAIN table : r.question_id = question_id /\ r.is_correct}
        correct == Filter(table, hit)
        others  == Filter(table, DOMAIN table \ hit)
        ordered == OrderBy(correct, [r \in DOMAIN correct |-> <<r.time_taken>>])
    IN  {others (+) SeqToBag([i \in 1..Len(s) |->
                        IF i <= Len(BonusPoints)
                        THEN [s[i] EXCEPT !.points = @ + BonusPoints[i]]
                        ELSE s[i]]) : s \in ordered}

\* a lookup that never finds a Result
NoExistingResult(table, student) == FALSE

\* Result.query.filter_by(quiz_id, student).first() is not None
ExistingResult(table, student) == \E r \in DOMAIN table : r.student = student

\* the Result row attempt_quiz builds from the student's PartialAnswer rows
ResultRow(table, student) ==
    LET partials == Filter(table, {r \in DOMAIN table : r.student = student})
    IN  [student      |-> student,
         score        |-> BagSum(partials, [r \in DOMAIN partials |->
                                                  IF r.is_correct THEN 1 ELSE 0]),
         total        |-> QuestionCount,
         time_taken   |-> BagSum(partials, [r \in DOMAIN partials |-> r.time_taken]),
         total_points |-> BagSum(partials, [r \in DOMAIN partials |-> r.points])]

\* not quiz.show_leaderboard_global: the column is NULL or false
GlobalLeaderboardOff ==
    quiz.show_leaderboard_global = None \/ ~Val(quiz.show_leaderboard_global)

\* Quiz.should_show_leaderboard(question), for a Question row
should_show_leaderboard(question) ==
    IF GlobalLeaderboardOff THEN FALSE ELSE question.show_leaderboard

\* guards that let a submission through while the quiz is paused
AttemptBlockedUnlessPaused ==
    ~quiz.is_active \/ ~quiz.is_published \/ QuestionCount = 0

\* the guards attempt_quiz returns on before it reads the form
AttemptBlocked ==
    ~quiz.is_active \/ ~quiz.is_published \/ quiz.is_paused \/ QuestionCount = 0

\* student.attempt_quiz (POST) with the form's fields
SubmitAnswer(student, qindex, question_id, selected_answer, time_taken) ==
    LET question    == questions[question_id]
        deleted     == WithoutAnswer(answers, question_id, student)
        is_correct  == check_answer_correctness(question, selected_answer)
        points      == calculate_question_points(question, is_correct, time_taken)
        partial     == [question_id |-> question_id, student |-> student,
                        is_correct |-> is_correct, time_taken |-> time_taken,
                        points |-> points, submitted_at |-> now]
        inserted    == deleted (+) SetToBag({partial})
        is_last     == qindex >= QuestionCount - 1
    IN  /\ ~AttemptBlocked
        /\ \E ranked \in RankBonusOutcomes(inserted, question_id) :
            /\ answers' = ranked
            /\ results' = IF is_last /\ ~ExistingResult(results, student)
                          THEN results (+) SetToBag({ResultRow(ranked, student)})
                          ELSE results
        /\ emitted' = <<>>
        /\ lastOp' = [Response("attempt_quiz", IF is_last THEN "complete" ELSE "next",
                               BagCardinality(answers) - BagCardinality(deleted))
                        EXCEPT !.form = Some([student         |-> student,
                                              question_id     |-> question_id,
                                              selected_answer |-> selected_answer,
                                              time_taken      |-> time_taken]),
                               !.value = Some([show_leaderboard |->
                                                should_show_leaderboard(question)])]
        /\ UNCHANGED <<quiz, questions, quiz_state, now, side_state>>

\* the submissions that leave every row within MaxPoints
Submit(student, qindex, question_id, selected_answer, time_taken) ==
    /\ SubmitAnswer(student, qindex, question_id, selected_answer, time_taken)
    /\ \A r \in DOMAIN answers' : r.points <= MaxPoints

\* student.attempt_quiz (POST)
AttemptQuiz ==
    \E student \in Students, qindex \in QindexInputs,
       question_id \in 1..QuestionCount, selected_answer \in SelectedInputs,
       time_taken \in TimeTakenInputs :
        Submit(student, qindex, question_id, selected_answer, time_taken)

\* student.attempt_quiz turned away by one of its guards
AttemptQuizBlocked ==
    /\ AttemptBlocked
    /\ emitted' = <<>>
    /\ lastOp' = Op("attempt_quiz", "closed")
    /\ UNCHANGED <<quiz, questions, quiz_state, answers, results, now, side_state>>

\* ------------------------------------------------------------ timer views
\* max(0, x)
AtLeastZero(x) == IF x > 0 THEN x ELSE 0

\* admin.live_control: elapsed_seconds and remaining_seconds of the overall
\* timer; both stay 0 when no timer runs.  overall_started_at is a time.time()
\* value, which is never 0, so it is truthy whenever it is present.
LiveControlElapsed ==
    IF /\ quiz.has_timer /\ quiz.is_active /\ quiz_state # None
       /\ OverallTimerEnabled
       /\ Val(quiz_state).overall_started_at # None
    THEN now - Val(Val(quiz_state).overall_started_at) - quiz.paused_seconds
    ELSE 0

LiveControlRemaining ==
    IF /\ quiz.has_timer /\ quiz.is_active /\ quiz_state # None
       /\ OverallTimerEnabled
       /\ Val(quiz_state).overall_started_at # None
    THEN AtLeastZero(Val(quiz.overall_timer) * 60 - LiveControlElapsed)
    ELSE 0

\* student.attempt_quiz (GET): remaining_seconds of the overall timer, None
\* when no timer runs
AttemptRemaining ==
    IF /\ quiz.has_timer /\ OverallTimerEnabled
       /\ quiz_state # None /\ Val(quiz_state).overall_started_at # None
    THEN Some(AtLeastZero(Val(quiz.overall_timer) * 60
                           - (now - Val(Val(quiz_state).overall_started_at))))
    ELSE None

\* admin.live_control
LiveControl ==
    /\ lastOp' = Rendered("live_control", Some(LiveControlRemaining))
    /\ emitted' = <<>>
    /\ UNCHANGED <<quiz, questions, quiz_state, answers, results, now, side_state>>

\* student.attempt_quiz (GET) past its guards: the question page, or the
\* redirect to the result page when qindex is past the last question
AttemptQuizGet ==
    /\ ~AttemptBlocked
    /\ \E given \in {None} \cup {Some(i) : i \in QindexInputs \cup {MaxQuestions}} :
        LET qindex == IF given # None THEN Val(given)
                      ELSE IF quiz.has_timer /\ quiz_state # None
                           THEN Val(quiz_state).current_qindex
                           ELSE 0
        IN  lastOp' = IF qindex >= QuestionCount
                      THEN Op("attempt_quiz_get", "redirect")
                      ELSE Rendered("attempt_quiz_get", AttemptRemaining)
    /\ emitted' = <<>>
    /\ UNCHANGED <<quiz, questions, quiz_state, answers, results, now, side_state>>

\* ------------------------------------------------------------ leaderboards
\* The module the routes take LeaderboardService from: student.py imports it
\* from app.services, whose __init__ takes it from
\* app.services.leaderboard_service.  app/routes/leaderboard_service.py defines
\* a class of the same name that nothing imports.
LeaderboardServiceModule == "app.services.leaderboard_service"

\* int() of a non-negative sum kept in tenths: the whole points, in tenths
WholePoints(tenths) == (tenths \div 10) * 10

\* the rows of one participant
AnswersOf(table, student) == Filter(table, {r \in DOMAIN table : r.student = student})

\* the participants GROUP BY student makes groups for
Participants(table) == {r.student : r \in DOMAIN table}

\* app.services.leaderboard_service: one aggregated row as the payload gives it
ServicesLeaderboardEntry(table, student) ==
    LET mine == AnswersOf(table, student)
    IN  [student   |-> student,
         points    |-> WholePoints(BagSum(mine, [r \in DOMAIN mine |-> r.points])),
         correct   |-> BagSum(mine, [r \in DOMAIN mine |-> IF r.is_correct THEN 1 ELSE 0]),
         incorrect |-> BagSum(mine, [r \in DOMAIN mine |-> IF r.is_correct THEN 0 ELSE 1]),
         time      |-> BagSum(mine, [r \in DOMAIN mine |-> r.time_taken]),
         total     |-> QuestionCount]

\* app.services.leaderboard_service.build_leaderboard_payload: the lists it can
\* return.  The query has no ORDER BY: the groups come in any order.
ServicesBuildLeaderboardPayload ==
    LET entries == {ServicesLeaderboardEntry(answers, student) :
                        student \in Participants(answers)}
    IN  OrderBy(SetToBag(entries), [e \in entries |-> <<>>])

\* app.routes.leaderboard_service: one aggregated row
RoutesLeaderboardEntry(table, student) ==
    LET mine == AnswersOf(table, student)
        time == BagSum(mine, [r \in DOMAIN mine |-> r.time_taken])
    IN  [name            |-> student,
         points          |-> BagSum(mine, [r \in DOMAIN mine |-> r.points]),
         correct         |-> BagSum(mine, [r \in DOMAIN mine |-> IF r.is_correct THEN 1 ELSE 0]),
         avg_time        |-> time \div BagCardinality(mine),
         time            |-> time,
         answered        |-> BagCardinality(mine),
         total_questions |-> QuestionCount]

\* app.routes.leaderboard_service.build_leaderboard_payload: the lists it can
\* return (list.sort is stable, and the groups came in any order)
RoutesBuildLeaderboardPayload ==
    IF GlobalLeaderboardOff THEN {<<>>}
    ELSE LET entries == {RoutesLeaderboardEntry(answers, student) :
                            student \in Participants(answers)}
             sorted  == OrderBy(SetToBag(entries),
                                [e \in entries |-> <<0 - e.points, 0 - e.correct, e.time>>])
         IN  {[i \in 1..Len(l) |-> l[i] @@ [rank |-> i]] : l \in sorted}

\* LeaderboardService.build_leaderboard_payload as the routes call it
BuildLeaderboardPayload ==
    IF LeaderboardServiceModule = "app.services.leaderboard_service"
    THEN ServicesBuildLeaderboardPayload
    ELSE RoutesBuildLeaderboardPayload

\* a leaderboard API that asks the service whatever the flag says
ApiLeaderboardAlwaysOn == FALSE

\* api_leaderboard's guard: not quiz.show_leaderboard_global
ApiLeaderboardDisabled == GlobalLeaderboardOff

\* student.api_leaderboard
ApiLeaderboard ==
    /\ IF ApiLeaderboardDisabled
       THEN lastOp' = [Response("api_leaderboard", "disabled", 0)
                        EXCEPT !.value = Some(<<>>)]
       ELSE \E leaderboard \in BuildLeaderboardPayload :
                lastOp' = [Response("api_leaderboard", "json", 0)
                            EXCEPT !.value = Some(leaderboard)]
    /\ emitted' = <<>>
    /\ UNCHANGED <<quiz, questions, quiz_state, answers, results, now, side_state>>

\* .limit(10)
LeaderboardLimit == 10

\* the first n rows of a listing
FirstRows(listing, n) == SubSeq(listing, 1, IF Len(listing) < n THEN Len(listing) ELSE n)

\* the correct rows of one question
CorrectAnswers(table, question_id) ==
    Filter(table, {r \in DOMAIN table : r.question_id = question_id /\ r.is_correct})

\* a question leaderboard ordered by time taken alone
QuestionLeaderboardKeyTimeOnly(row) == <<row.time_taken>>

\* the ORDER BY of get_question_leaderboard: time_taken, submitted_at on a
\* quiz with per-question timing, submitted_at alone on one without
QuestionLeaderboardKey(row) ==
    IF quiz.has_timer THEN <<row.time_taken, row.submitted_at>>
    ELSE <<row.submitted_at>>

\* app.services.leaderboard_service.get_question_leaderboard: the lists it can
\* return
ServicesGetQuestionLeaderboard(question_id) ==
    LET correct == CorrectAnswers(answers, question_id)
        ordered == OrderBy(correct, [r \in DOMAIN correct |-> QuestionLeaderboardKey(r)])
    IN  {[i \in 1..Len(FirstRows(l, LeaderboardLimit)) |->
            [rank |-> i, student |-> l[i].student, time_taken |-> l[i].time_taken,
             points |-> l[i].points]] : l \in ordered}

\* app.routes.leaderboard_service.get_question_leaderboard: the lists it can
\* return
RoutesGetQuestionLeaderboard(question_id) ==
    IF GlobalLeaderboardOff THEN {<<>>}
    ELSE IF question_id \in 1..QuestionCount /\ ~questions[question_id].show_leaderboard
    THEN {<<>>}
    ELSE LET rows    == Filter(answers, {r \in DOMAIN answers : r.question_id = question_id})
             ordered == OrderBy(rows, [r \in DOMAIN rows |->
                                   <<IF r.is_correct THEN 0 ELSE 1, r.time_taken>>])
         IN  {[i \in 1..Len(l) |->
                [rank |-> i, name |-> l[i].student, is_correct |-> l[i].is_correct,
                 time_taken |-> l[i].time_taken, points |-> l[i].points,
                 submitted_at |-> l[i].submitted_at]] : l \in ordered}

\* LeaderboardService.get_question_leaderboard as the routes call it
GetQuestionLeaderboard(question_id) ==
    IF LeaderboardServiceModule = "app.services.leaderboard_service"
    THEN ServicesGetQuestionLeaderboard(question_id)
    ELSE RoutesGetQuestionLeaderboard(question_id)

\* a question leaderboard hidden only when both flags are unset
QuestionLeaderboardDisabledBoth(question_id) ==
    /\ GlobalLeaderboardOff
    /\ question_id \in 1..QuestionCount /\ ~questions[question_id].show_leaderboard

\* api_question_leaderboard's guard: not quiz.show_leaderboard_global or
\* (question and not question.show_leaderboard); Question.query.get gives None
\* for an id that has no row
QuestionLeaderboardDisabled(question_id) ==
    \/ GlobalLeaderboardOff
    \/ question_id \in 1..QuestionCount /\ ~questions[question_id].show_leaderboard

\* student.api_question_leaderboard
ApiQuestionLeaderboard ==
    /\ \E question_id \in 1..(QuestionCount + 1) :
        IF QuestionLeaderboardDisabled(question_id)
        THEN lastOp' = [Response("api_question_leaderboard", "disabled", 0)
                         EXCEPT !.form = Some([question_id |-> question_id]),
                                !.value = Some(<<>>)]
        ELSE \E leaderboard \in GetQuestionLeaderboard(question_id) :
                lastOp' = [Response("api_question_leaderboard", "json", 0)
                            EXCEPT !.form = Some([question_id |-> question_id]),
                                   !.value = Some(leaderboard)]
    /\ emitted' = <<>>
    /\ UNCHANGED <<quiz, questions, quiz_state, answers, results, now, side_state>>

\* ------------------------------------------------------------------- Next
\* The session lifecycle: the host's routes and events, with the clock.
Next ==
    \/ Tick
    \/ AddQuestion
    \/ EndQuestions
    \/ PublishQuiz
    \/ PauseQuiz
    \/ ResumeQuiz
    \/ StopQuiz
    \/ StartQuiz
    \/ ResetQuiz
    \/ HandleAdminStartQuiz
    \/ OnAdminNextQuestion
    \/ HandleAdminPreviousQuestion
    \/ AttemptQuizBlocked
    \/ LiveControl
    \/ AttemptQuizGet

Spec == Init /\ [][Next]_vars

\* Answer submission: a quiz that add_question, end_questions and publish_quiz
\* have brought to Published, with one more publish left under MaxPublish, then
\* sessions of it with a participant submitting.
InitSubmit ==
    /\ \E has_timer \in BOOLEAN, code \in {"AB12CD"}, k \in 1..MaxQuestions,
          points \in BasePoints, limit \in TimeLimitInputs :
        /\ quiz = [is_locked |-> TRUE, is_published |-> TRUE, is_active |-> FALSE,
                   is_paused |-> FALSE, paused_at |-> None, paused_seconds |-> 0,
                   publish_count |-> MaxPublish - 1, join_code |-> code,
                   has_timer |-> has_timer, overall_timer |-> None,
                   show_leaderboard_global |-> None]
        /\ questions = [i \in 1..k |-> NewQuestion(has_timer, points, limit, TRUE)]
    /\ quiz_state = Some(BareState)
    /\ answers = EmptyBag
    /\ results = EmptyBag
    /\ now = 0
    /\ emitted = <<>>
    /\ lastOp = Op("publish_quiz", "success")
    /\ SideInit

NextSubmit ==
    \/ StartQuiz
    \/ HandleAdminStartQuiz
    \/ PublishQuiz
    \/ AttemptQuiz
    \/ AttemptQuizBlocked

SpecSubmit == InitSubmit /\ [][NextSubmit]_vars

\* Sessions with submissions that the host resets and starts again.
NextReset ==
    \/ StartQuiz
    \/ ResetQuiz
    \/ AttemptQuiz
    \/ AttemptQuizBlocked

SpecReset == InitSubmit /\ [][NextReset]_vars

\* Grading: a live session of a one-question quiz, and submissions graded by
\* check_answer_correctness and calculate_question_points.
ScoreTypeInputs     == {"multiple-choice", "checkbox"}
ScoreCorrectInputs  == {<<>>, <<1>>, <<1, 2>>}       \* the options marked correct
ScorePointInputs    == {0, 10, 20}                   \* points_<i>: 0, 1.0, 2.0
ScoreSelectedInputs ==
    {"", "No Answer", "abc", "1", "2", "[]", "[1]", "[2]", "[1,2]", "[2,1]",
     "[1,1,2]", "[1,2,3]", "[2,3]"}
ScoreTimeInputs     == {0, 3, 4, 6, 7, 9, 10, 12}    \* around the bands of a 10 s limit

InitScore ==
    /\ \E has_timer \in BOOLEAN, question_type \in ScoreTypeInputs,
          correct_answers \in ScoreCorrectInputs, points \in ScorePointInputs,
          limit \in TimeLimitInputs :
        /\ quiz = [is_locked |-> TRUE, is_published |-> TRUE, is_active |-> TRUE,
                   is_paused |-> FALSE, paused_at |-> None, paused_seconds |-> 0,
                   publish_count |-> 1, join_code |-> "AB12CD",
                   has_timer |-> has_timer, overall_timer |-> None,
                   show_leaderboard_global |-> None]
        /\ questions = <<QuestionRow(has_timer, question_type, correct_answers,
                                     points, limit, TRUE)>>
    /\ now = 0
    /\ quiz_state = Some(StartedState)
    /\ answers = EmptyBag
    /\ results = EmptyBag
    /\ emitted = <<>>
    /\ lastOp = Response("start_quiz", "success", 0)
    /\ SideInit

\* student.attempt_quiz (POST), the grading of the form: is_correct and
\* question_points as the two functions return them
GradeAnswer ==
    \E selected_answer \in ScoreSelectedInputs, time_taken \in ScoreTimeInputs :
        LET question   == questions[1]
            is_correct == check_answer_correctness(question, selected_answer)
            points     == calculate_question_points(question, is_correct, time_taken)
        IN  /\ lastOp' = [Response("grade", "return", 0)
                            EXCEPT !.form = Some([selected_answer |-> selected_answer,
                                                  time_taken      |-> time_taken]),
                                   !.value = Some([is_correct      |-> is_correct,
                                                   question_points |-> points])]
            /\ emitted' = <<>>
            /\ UNCHANGED <<quiz, questions, quiz_state, answers, results, now, side_state>>

NextScore ==
    \/ GradeAnswer

SpecScore == InitScore /\ [][NextScore]_vars

\* Ranking: a live session of a one-question quiz with two participants, the
\* rank bonus passes their submissions trigger, and the leaderboard APIs.
Contestants == {"s1", "s2"}

LeaderboardFlagInputs == {None, Some(TRUE)}   \* show_leaderboard_global as add_question leaves it

InitRank ==
    /\ \E has_timer \in BOOLEAN, flag \in LeaderboardFlagInputs,
          show_leaderboard \in BOOLEAN, points \in BasePoints, limit \in TimeLimitInputs :
        /\ quiz = [is_locked |-> TRUE, is_published |-> TRUE, is_active |-> TRUE,
                   is_paused |-> FALSE, paused_at |-> None, paused_seconds |-> 0,
                   publish_count |-> 1, join_code |-> "AB12CD",
                   has_timer |-> has_timer, overall_timer |-> None,
                   show_leaderboard_global |-> flag]
        /\ questions = <<NewQuestion(has_timer, points, limit, show_leaderboard)>>
    /\ now = 0
    /\ quiz_state = Some(StartedState)
    /\ answers = EmptyBag
    /\ results = EmptyBag
    /\ emitted = <<>>
    /\ lastOp = Response("start_quiz", "success", 0)
    /\ SideInit

\* student.attempt_quiz (POST) by either participant
AttemptQuizContest ==
    \E student \in Contestants, question_id \in 1..QuestionCount,
       selected_answer \in SelectedInputs, time_taken \in TimeTakenInputs :
        Submit(student, question_id - 1, question_id, selected_answer, time_taken)

NextRank ==
    \/ AttemptQuizContest
    \/ ApiLeaderboard
    \/ ApiQuestionLeaderboard

SpecRank == InitRank /\ [][NextRank]_vars

\* A crowded question: a live session of a two-question quiz with both
\* leaderboard flags set.  One participant has answered question 2 (and so
\* finished), then nine have answered question 1 correctly, one per second,
\* each faster than the one before; with the two contestants, who answer
\* question 1 next, that is one more than the question leaderboard holds.
Crowd == <<"c1", "c2", "c3", "c4", "c5", "c6", "c7", "c8", "c9">>

Bystander == "c0"

\* the PartialAnswer row the bystander submitted for question 2
BystanderRow ==
    LET time_taken == 5
        is_correct == check_answer_correctness(questions[2], "1")
    IN  [question_id |-> 2, student |-> Bystander, is_correct |-> is_correct,
         time_taken |-> time_taken,
         points |-> calculate_question_points(questions[2], is_correct, time_taken),
         submitted_at |-> 0 - 1 - Len(Crowd)]

\* the PartialAnswer row the i-th of the crowd submitted
CrowdRow(i) ==
    LET time_taken == 10 + Len(Crowd) + 1 - i
        is_correct == check_answer_correctness(questions[1], "1")
    IN  [question_id |-> 1, student |-> Crowd[i], is_correct |-> is_correct,
         time_taken |-> time_taken,
         points |-> calculate_question_points(questions[1], is_correct, time_taken),
         submitted_at |-> i - 1 - Len(Crowd)]

\* the PartialAnswer table after the first n of the crowd have submitted, each
\* submission followed by its ranking pass (their times differ, so each pass
\* has one outcome)
RECURSIVE CrowdAnswers(_)
CrowdAnswers(n) ==
    IF n = 0
    THEN CHOOSE ranked \in RankBonusOutcomes(SetToBag({BystanderRow}), 2) : TRUE
    ELSE CHOOSE ranked \in UNION {RankBonusOutcomes(inserted, 1) :
                inserted \in {CrowdAnswers(n - 1) (+) SetToBag({CrowdRow(n)})}} : TRUE

InitRoster ==
    /\ \E has_timer \in BOOLEAN, points \in BasePoints, limit \in TimeLimitInputs :
        /\ quiz = [is_locked |-> TRUE, is_published |-> TRUE, is_active |-> TRUE,
                   is_paused |-> FALSE, paused_at |-> None, paused_seconds |-> 0,
                   publish_count |-> 1, join_code |-> "AB12CD",
                   has_timer |-> has_timer, overall_timer |-> None,
                   show_leaderboard_global |-> Some(TRUE)]
        /\ questions = [i \in 1..2 |-> NewQuestion(has_timer, points, limit, TRUE)]
    /\ now = 0
    /\ quiz_state = Some([BareState EXCEPT !.started_at = Some(0 - 1 - Len(Crowd))])
    /\ answers = CrowdAnswers(Len(Crowd))
    /\ results = SetToBag({ResultRow(CrowdAnswers(0), Bystander)})
    /\ emitted = <<>>
    /\ lastOp = Response("attempt_quiz", "next", 0)
    /\ SideInit

\* student.attempt_quiz (POST) by a contestant who has not answered
\* question 1 yet
AttemptQuizRoster ==
    \E student \in Contestants, question_id \in {1},
       selected_answer \in SelectedInputs, time_taken \in TimeTakenInputs :
        /\ RowsFor(answers, question_id, student) = EmptyBag
        /\ SubmitAnswer(student, question_id - 1, question_id, selected_answer, time_taken)

NextRoster ==
    \/ Tick
    \/ AttemptQuizRoster
    \/ ApiQuestionLeaderboard

SpecRoster == InitRoster /\ [][NextRoster]_vars

\* Commit and broadcast: start_quiz, stop_quiz and handle_admin_start_quiz in
\* two steps each, the first up to and including db.session.commit(), the
\* second what follows it.  quiz is the persisted row; a handler between its
\* two steps has lastOp.at = "committed".  Handlers run one at a time.
NoHandlerRunning == lastOp.at = "done"

\* the handler that has committed and not yet returned
Committed(name) == lastOp.op = name /\ lastOp.at = "committed"

\* a start that broadcasts first and commits nothing yet
StartQuizBroadcastFirst ==
    /\ NoHandlerRunning
    /\ quiz.is_published /\ QuestionCount > 0 /\ ~quiz.is_active
    /\ emitted' = <<Event("begin_quiz", 0), Event("join_quiz_room", 0)>>
    /\ lastOp' = [Response("start_quiz", "success", 0) EXCEPT !.at = "broadcast"]
    /\ UNCHANGED <<quiz, questions, quiz_state, answers, results, now, side_state>>

\* admin.start_quiz through db.session.commit(): the guards, which return at
\* once, or the deletion of the answers, the session entry and the committed
\* flags
StartQuizCommit ==
    /\ NoHandlerRunning
    /\ emitted' = <<>>
    /\ UNCHANGED <<questions, results, now, side_state>>
    /\ IF ~quiz.is_published \/ QuestionCount = 0
       THEN /\ lastOp' = Op("start_quiz", "error")
            /\ UNCHANGED <<quiz, quiz_state, answers>>
       ELSE IF quiz.is_active
       THEN /\ lastOp' = Op("start_quiz", "warning")
            /\ UNCHANGED <<quiz, quiz_state, answers>>
       ELSE /\ answers' = ClearedAnswers
            /\ quiz' = StartedQuiz
            /\ quiz_state' = Some(StartedState)
            /\ lastOp' = [Response("start_quiz", "success", BagCardinality(answers))
                            EXCEPT !.at = "committed"]

\* admin.start_quiz after the commit: the two broadcasts to the waiting room
StartQuizBroadcast ==
    /\ Committed("start_quiz")
    /\ emitted' = <<Event("begin_quiz", 0), Event("join_quiz_room", 0)>>
    /\ lastOp' = [lastOp EXCEPT !.at = "done"]
    /\ UNCHANGED <<quiz, questions, quiz_state, answers, results, now, side_state>>

\* admin.stop_quiz through db.session.commit()
StopQuizCommit ==
    /\ NoHandlerRunning
    /\ quiz' = StoppedQuiz
    /\ emitted' = <<>>
    /\ lastOp' = [Op("stop_quiz", "success") EXCEPT !.at = "committed"]
    /\ UNCHANGED <<questions, quiz_state, answers, results, now, side_state>>

\* admin.stop_quiz after the commit: the session entry is dropped and
\* "quiz_stopped" is broadcast
StopQuizBroadcast ==
    /\ Committed("stop_quiz")
    /\ quiz_state' = None
    /\ emitted' = <<Event("quiz_stopped", 0)>>
    /\ lastOp' = [lastOp EXCEPT !.at = "done"]
    /\ UNCHANGED <<quiz, questions, answers, results, now, side_state>>

\* admin.handle_admin_start_quiz through db.session.commit()
HandleAdminStartQuizCommit ==
    /\ NoHandlerRunning
    /\ answers' = ClearedAnswers
    /\ quiz' = StartedQuiz
    /\ quiz_state' = Some(StartedState)
    /\ emitted' = <<>>
    /\ lastOp' = [Response("admin_start_quiz", "success", BagCardinality(answers))
                    EXCEPT !.at = "committed"]
    /\ UNCHANGED <<questions, results, now, side_state>>

\* admin.handle_admin_start_quiz after the commit: "quiz_started" is broadcast
HandleAdminStartQuizBroadcast ==
    /\ Committed("admin_start_quiz")
    /\ emitted' = <<Event("quiz_started", 0)>>
    /\ lastOp' = [lastOp EXCEPT !.at = "done"]
    /\ UNCHANGED <<quiz, questions, quiz_state, answers, results, now, side_state>>

\* time passes and a publish happens between two handlers
TickBetween == NoHandlerRunning /\ Tick

PublishQuizBetween == NoHandlerRunning /\ PublishQuiz

NextCommit ==
    \/ StartQuizCommit
    \/ StartQuizBroadcast
    \/ StopQuizCommit
    \/ StopQuizBroadcast
    \/ HandleAdminStartQuizCommit
    \/ HandleAdminStartQuizBroadcast
    \/ TickBetween
    \/ PublishQuizBetween

SpecCommit == InitSubmit /\ [][NextCommit]_vars

\* Commit failure: a start whose db.session.commit() raises.  The places a
\* start commits at: inside clear_quiz_session_data, after the delete, and at
\* the end of start_quiz, after the flags and the session entry are written.
CommitPlaces == {"clear_quiz_session_data", "start_quiz"}

\* admin.start_quiz with the commit at place `at` raising: the request ends
\* with the exception, the pending writes of that commit are lost, and what
\* was committed or written to quiz_state before it stays
StartQuizCommitFails ==
    \E place \in CommitPlaces :
        /\ quiz.is_published /\ QuestionCount > 0 /\ ~quiz.is_active
        /\ IF place = "clear_quiz_session_data"
           THEN UNCHANGED <<answers, quiz_state>>
           ELSE /\ answers' = ClearedAnswers
                /\ quiz_state' = Some(StartedState)
        /\ emitted' = <<>>
        /\ lastOp' = [Op("start_quiz", "exception")
                        EXCEPT !.form = Some([place |-> place])]
        /\ UNCHANGED <<quiz, questions, results, now, side_state>>

NextFail ==
    \/ StartQuiz
    \/ StartQuizCommitFails
    \/ PublishQuiz
    \/ AttemptQuiz

SpecFail == InitSubmit /\ [][NextFail]_vars

\* Form fields: a live session of a one-question quiz and submissions whose
\* form lacks question_id, names no Question, or carries a selection
\* json.loads cannot read.
FormQuestionIds == {None, Some(1), Some(2)}   \* question_id: absent, the question, no row

FormSelectedInputs == {"1", "[1]", "[1,2]", "[1,", "abc", "No Answer"}

\* student.attempt_quiz (POST) from the form as it arrives: int() of an absent
\* question_id raises, Question.query.get_or_404 answers 404 for an id without
\* a row, and every other form is handled as a submission
AttemptQuizForm ==
    \E student \in Students, question_id \in FormQuestionIds,
       selected_answer \in FormSelectedInputs, time_taken \in TimeTakenInputs :
        IF question_id = None \/ Val(question_id) \notin 1..QuestionCount
        THEN /\ ~AttemptBlocked
             /\ emitted' = <<>>
             /\ lastOp' = [Op("attempt_quiz",
                              IF question_id = None THEN "exception" ELSE "not_found")
                             EXCEPT !.form = Some([student         |-> student,
                                                   selected_answer |-> selected_answer,
                                                   time_taken      |-> time_taken])]
             /\ UNCHANGED <<quiz, questions, quiz_state, answers, results, now, side_state>>
        ELSE SubmitAnswer(student, Val(question_id) - 1, Val(question_id),
                          selected_answer, time_taken)

NextForm ==
    \/ AttemptQuizForm

SpecForm == InitScore /\ [][NextForm]_vars

\* Concurrent submissions: Flask-SocketIO runs in "threading" mode, so two
\* attempt_quiz POST requests of one participant for the last question run in
\* two threads, each with its own database session, and interleave at their
\* queries and commits.
Requests == {"r1", "r2"}

\* a request that has passed its guards and read its form
Arrived(selected_answer, time_taken) ==
    [at |-> "delete", student |-> "s1", question_id |-> 1,
     selected_answer |-> selected_answer, time_taken |-> time_taken,
     totals |-> None]

InitRace ==
    /\ \E has_timer \in BOOLEAN, points \in BasePoints, limit \in TimeLimitInputs :
        /\ quiz = [is_locked |-> TRUE, is_published |-> TRUE, is_active |-> TRUE,
                   is_paused |-> FALSE, paused_at |-> None, paused_seconds |-> 0,
                   publish_count |-> 1, join_code |-> "AB12CD",
                   has_timer |-> has_timer, overall_timer |-> None,
                   show_leaderboard_global |-> None]
        /\ questions = <<NewQuestion(has_timer, points, limit, TRUE)>>
    /\ now = 0
    /\ quiz_state = Some(StartedState)
    /\ answers = EmptyBag
    /\ results = EmptyBag
    /\ emitted = <<>>
    /\ lastOp = Response("start_quiz", "success", 0)
    /\ requests \in [Requests -> {Arrived(selected_answer, time_taken) :
                                    selected_answer \in SelectedInputs,
                                    time_taken \in TimeTakenInputs}]
    /\ waiting_rooms = None
    /\ active_participants = None
    /\ connections = <<>>

\* a step of request r: the table writes are the caller's, the rest is framed
RequestStep(r, place, local) ==
    /\ requests' = [requests EXCEPT ![r] = [local EXCEPT !.at = place]]
    /\ emitted' = <<>>
    /\ lastOp' = [Op("attempt_quiz", place) EXCEPT !.form = Some([request |-> r])]
    /\ UNCHANGED <<quiz, questions, quiz_state, now, waiting_rooms,
                   active_participants, connections>>

\* PartialAnswer.query.filter_by(...).delete(); db.session.commit()
RequestDelete ==
    \E r \in Requests :
        /\ requests[r].at = "delete"
        /\ answers' = WithoutAnswer(answers, requests[r].question_id, requests[r].student)
        /\ UNCHANGED results
        /\ RequestStep(r, "insert", requests[r])

\* db.session.add(partial); db.session.commit(): the unique constraint
\* (quiz_id, question_id, student) of PartialAnswer makes the commit raise
\* when a row of the pair is there, and the request ends with the exception
RequestInsert ==
    \E r \in Requests :
        LET request    == requests[r]
            question   == questions[request.question_id]
            is_correct == check_answer_correctness(question, request.selected_answer)
            partial    == [question_id |-> request.question_id,
                           student |-> request.student,
                           is_correct |-> is_correct,
                           time_taken |-> request.time_taken,
                           points |-> calculate_question_points(question, is_correct,
                                                                request.time_taken),
                           submitted_at |-> now]
        IN  /\ request.at = "insert"
            /\ UNCHANGED results
            /\ IF RowsFor(answers, request.question_id, request.student) # EmptyBag
               THEN /\ UNCHANGED answers
                    /\ RequestStep(r, "exception", request)
               ELSE /\ answers' = answers (+) SetToBag({partial})
                    /\ RequestStep(r, "bonus", request)

\* ScoringService.update_question_rank_bonuses(quiz_id, question_id)
RequestBonus ==
    \E r \in Requests :
        /\ requests[r].at = "bonus"
        /\ answers' \in RankBonusOutcomes(answers, requests[r].question_id)
        /\ UNCHANGED results
        /\ RequestStep(r, "partials", requests[r])

\* partials = PartialAnswer.query.filter_by(quiz_id, student).all() and the
\* three sums over it
RequestPartials ==
    \E r \in Requests :
        /\ requests[r].at = "partials"
        /\ UNCHANGED <<answers, results>>
        /\ RequestStep(r, "existing",
               [requests[r] EXCEPT !.totals = Some(ResultRow(answers, requests[r].student))])

\* existing = Result.query.filter_by(quiz_id, student).first()
RequestExisting ==
    \E r \in Requests :
        /\ requests[r].at = "existing"
        /\ UNCHANGED <<answers, results>>
        /\ RequestStep(r, IF ExistingResult(results, requests[r].student)
                          THEN "done" ELSE "result", requests[r])

\* db.session.add(result); db.session.commit()
RequestResult ==
    \E r \in Requests :
        /\ requests[r].at = "result"
        /\ results' = results (+) SetToBag({Val(requests[r].totals)})
        /\ UNCHANGED answers
        /\ RequestStep(r, "done", requests[r])

NextRace ==
    \/ RequestDelete
    \/ RequestInsert
    \/ RequestBonus
    \/ RequestPartials
    \/ RequestExisting
    \/ RequestResult

SpecRace == InitRace /\ [][NextRace]_vars

\* A session the host walks through: a quiz just started, at index 0, and a
\* host who keeps sending "admin_next_question" while time passes and the
\* control page and the question page are fetched.  Every event the host sends is handled.
InitAdvance ==
    /\ \E has_timer \in BOOLEAN, timer \in OverallTimerInputs, k \in 1..MaxQuestions,
          points \in BasePoints, limit \in TimeLimitInputs :
        /\ quiz = [is_locked |-> TRUE, is_published |-> TRUE, is_active |-> TRUE,
                   is_paused |-> FALSE, paused_at |-> None, paused_seconds |-> 0,
                   publish_count |-> 1, join_code |-> "AB12CD",
                   has_timer |-> has_timer,
                   overall_timer |-> IF timer > 0 THEN Some(timer) ELSE None,
                   show_leaderboard_global |-> None]
        /\ questions = [i \in 1..k |-> NewQuestion(has_timer, points, limit, TRUE)]
    /\ now = 0
    /\ quiz_state = Some(StartedState)
    /\ answers = EmptyBag
    /\ results = EmptyBag
    /\ emitted = <<Event("begin_quiz", 0), Event("join_quiz_room", 0)>>
    /\ lastOp = Response("start_quiz", "success", 0)
    /\ SideInit

NextAdvance ==
    \/ OnAdminNextQuestion
    \/ Tick
    \/ LiveControl
    \/ AttemptQuizGet

SpecAdvance == InitAdvance /\ [][NextAdvance]_vars /\ WF_vars(OnAdminNextQuestion)

\* Submissions at any point of the lifecycle: a published one-question quiz
\* that the host starts, pauses, resumes, stops, resets and publishes again
\* while the participant keeps posting.
InitGuard ==
    /\ \E has_timer \in BOOLEAN, points \in BasePoints, limit \in TimeLimitInputs :
        /\ quiz = [is_locked |-> TRUE, is_published |-> TRUE, is_active |-> FALSE,
                   is_paused |-> FALSE, paused_at |-> None, paused_seconds |-> 0,
                   publish_count |-> MaxPublish - 1, join_code |-> "AB12CD",
                   has_timer |-> has_timer, overall_timer |-> None,
                   show_leaderboard_global |-> None]
        /\ questions = <<NewQuestion(has_timer, points, limit, TRUE)>>
    /\ quiz_state = Some(BareState)
    /\ answers = EmptyBag
    /\ results = EmptyBag
    /\ now = 0
    /\ emitted = <<>>
    /\ lastOp = Op("publish_quiz", "success")
    /\ SideInit

NextGuard ==
    \/ StartQuiz
    \/ HandleAdminStartQuiz
    \/ PauseQuiz
    \/ ResumeQuiz
    \/ StopQuiz
    \/ ResetQuiz
    \/ PublishQuiz
    \/ AttemptQuiz
    \/ AttemptQuizBlocked

SpecGuard == InitGuard /\ [][NextGuard]_vars

\* One answer each: a live session of a one-question quiz in which every
\* participant submits once, in any order of arrival, while time passes.
AttemptQuizOnce ==
    \E student \in Contestants, question_id \in 1..QuestionCount,
       selected_answer \in SelectedInputs, time_taken \in TimeTakenInputs :
        /\ RowsFor(answers, question_id, student) = EmptyBag
        /\ SubmitAnswer(student, question_id - 1, question_id, selected_answer, time_taken)

NextOnce ==
    \/ AttemptQuizOnce
    \/ Tick
    \/ ApiQuestionLeaderboard

SpecOnce == InitRank /\ [][NextOnce]_vars

\* The waiting room: the connections of the participants of one published
\* quiz, which join the waiting room, leave it and disconnect.  A connection
\* sends the name of its browser session; two connections of one session send
\* the same name.
Sids == {"a", "b", "c"}        \* request.sid of the connections

Names == {"ann", "bob"}        \* the usernames the connections send

\* the connections that are up and have not joined yet
InitRoom ==
    /\ \E has_timer \in BOOLEAN, points \in BasePoints, limit \in TimeLimitInputs :
        /\ quiz = [is_locked |-> TRUE, is_published |-> TRUE, is_active |-> FALSE,
                   is_paused |-> FALSE, paused_at |-> None, paused_seconds |-> 0,
                   publish_count |-> 1, join_code |-> "AB12CD",
                   has_timer |-> has_timer, overall_timer |-> None,
                   show_leaderboard_global |-> None]
        /\ questions = <<NewQuestion(has_timer, points, limit, TRUE)>>
    /\ quiz_state = Some(BareState)
    /\ answers = EmptyBag
    /\ results = EmptyBag
    /\ now = 0
    /\ emitted = <<>>
    /\ lastOp = Op("publish_quiz", "success")
    /\ requests = <<>>
    /\ waiting_rooms = None
    /\ active_participants = None
    /\ connections \in [Sids -> [username : Names, connected : {TRUE}, waiting : {FALSE}]]

\* the elements of a list
Members(list) == {list[i] : i \in 1..Len(list)}

\* list.remove(x): the list without the first x
RemoveFirst(list, x) ==
    LET first == CHOOSE i \in 1..Len(list) :
                    list[i] = x /\ \A j \in 1..(i - 1) : list[j] # x
    IN  SubSeq(list, 1, first - 1) \o SubSeq(list, first + 1, Len(list))

\* waiting_rooms[quiz_id], empty where the quiz has no key
WaitingList == IF waiting_rooms = None THEN <<>> ELSE Val(waiting_rooms)

\* active_participants[quiz_id] as its items in insertion order, empty where
\* the quiz has no key
ActiveItems == IF active_participants = None THEN <<>> ELSE Val(active_participants)

\* request.sid in active_participants.get(quiz_id, {})
IsActive(sid) == \E i \in 1..Len(ActiveItems) : ActiveItems[i].sid = sid

\* active_participants[quiz_id][sid]
ActiveName(sid) ==
    ActiveItems[CHOOSE i \in 1..Len(ActiveItems) : ActiveItems[i].sid = sid].username

\* the items without the item at place i
WithoutItem(items, i) == SubSeq(items, 1, i - 1) \o SubSeq(items, i + 1, Len(items))

\* the payload of "update_participants" for a room
ParticipantsEvent(room, users) ==
    [name |-> "update_participants", room |-> room, users |-> users,
     count |-> Len(users)]

\* the run of a waiting-room handler for connection sid
RoomOp(name, sid) == [Op(name, "success") EXCEPT !.form = Some([sid |-> sid])]

\* quiz_events.handle_join_waiting_room
JoinWaitingRoom ==
    \E sid \in Sids :
        LET username == connections[sid].username
            users    == IF username \in Members(WaitingList) THEN WaitingList
                        ELSE Append(WaitingList, username)
            items    == IF IsActive(sid)
                        THEN [i \in 1..Len(ActiveItems) |->
                                IF ActiveItems[i].sid = sid
                                THEN [sid |-> sid, username |-> username]
                                ELSE ActiveItems[i]]
                        ELSE Append(ActiveItems, [sid |-> sid, username |-> username])
        IN  /\ connections[sid].connected
            /\ waiting_rooms' = Some(users)
            /\ active_participants' = Some(items)
            /\ emitted' = <<ParticipantsEvent("waiting_room", users)>>
            /\ connections' = [connections EXCEPT ![sid].waiting = TRUE]
            /\ lastOp' = RoomOp("join_waiting_room", sid)
            /\ UNCHANGED <<quiz, questions, quiz_state, answers, results, now, requests>>

\* quiz_events.handle_leave_waiting_room, sent by a connection that is in the
\* waiting room
LeaveWaitingRoom ==
    \E sid \in Sids :
        LET username == connections[sid].username
            named    == {i \in 1..Len(ActiveItems) : ActiveItems[i].username = username}
        IN  /\ connections[sid].connected /\ connections[sid].waiting
            /\ IF waiting_rooms # None /\ username \in Members(WaitingList)
               THEN /\ waiting_rooms' = Some(RemoveFirst(WaitingList, username))
                    /\ emitted' = <<ParticipantsEvent("waiting_room",
                                                      RemoveFirst(WaitingList, username))>>
                    /\ active_participants' =
                          IF active_participants # None /\ named # {}
                          THEN Some(WithoutItem(ActiveItems,
                                      CHOOSE i \in named : \A j \in named : i <= j))
                          ELSE active_participants
               ELSE /\ emitted' = <<>>
                    /\ UNCHANGED <<waiting_rooms, active_participants>>
            /\ connections' = [connections EXCEPT ![sid].waiting = FALSE]
            /\ lastOp' = RoomOp("leave_waiting_room", sid)
            /\ UNCHANGED <<quiz, questions, quiz_state, answers, results, now, requests>>

\* the orders list(set(names)) can come back in
Orders(names) ==
    {users \in [1..Cardinality(names) -> names] : Members(users) = names}

\* quiz_events.handle_disconnect, with emit_participant_update
Disconnect ==
    \E sid \in Sids :
        LET listed == /\ waiting_rooms # None /\ IsActive(sid)
                      /\ ActiveName(sid) \in Members(WaitingList)
            users  == IF listed THEN RemoveFirst(WaitingList, ActiveName(sid))
                      ELSE WaitingList
            items  == IF IsActive(sid)
                      THEN WithoutItem(ActiveItems,
                              CHOOSE i \in 1..Len(ActiveItems) : ActiveItems[i].sid = sid)
                      ELSE ActiveItems
            names  == {items[i].username : i \in 1..Len(items)}
        IN  /\ connections[sid].connected
            /\ waiting_rooms' = IF listed THEN Some(users) ELSE waiting_rooms
            /\ active_participants' = IF IsActive(sid) THEN Some(items)
                                      ELSE active_participants
            /\ \E order \in Orders(names) :
                  emitted' = (IF listed THEN <<ParticipantsEvent("waiting_room", users)>>
                              ELSE <<>>)
                             \o (IF IsActive(sid) THEN <<ParticipantsEvent("quiz", order)>>
                                 ELSE <<>>)
            /\ connections' = [connections EXCEPT ![sid].connected = FALSE,
                                                  ![sid].waiting = FALSE]
            /\ lastOp' = RoomOp("disconnect", sid)
            /\ UNCHANGED <<quiz, questions, quiz_state, answers, results, now, requests>>

NextRoom ==
    \/ JoinWaitingRoom
    \/ LeaveWaitingRoom
    \/ Disconnect

SpecRoom == InitRoom /\ [][NextRoom]_vars

\* Session after session: the host starts, stops, resets and publishes the
\* quiz again, and the participant answers each question once per session,
\* the page of question i posting qindex i - 1.
AttemptQuizFresh ==
    \E student \in Students, question_id \in 1..QuestionCount,
       selected_answer \in SelectedInputs, time_taken \in TimeTakenInputs :
        /\ RowsFor(answers, question_id, student) = EmptyBag
        /\ Submit(student, question_id - 1, question_id, selected_answer, time_taken)

NextSessions ==
    \/ StartQuiz
    \/ StopQuiz
    \/ ResetQuiz
    \/ PublishQuiz
    \/ AttemptQuizFresh

SpecSessions == InitSubmit /\ [][NextSessions]_vars

\* ------------------------------------------------------------------ claims
\* the steps of the two start handlers, and of the advance event
StartStep == lastOp'.op \in {"start_quiz", "admin_start_quiz"}

AdvanceStep == lastOp'.op = "admin_next_question"

\* C1: for a quiz with n >= 1 questions whose current index is n-1, the
\* "admin_next_question" event broadcasts "quiz_finished" and no next-question
\* event that carries an index >= n, whatever starts and advances came before.
C1_AdvanceAtLastIndexFinishes ==
    [][(/\ AdvanceStep
        /\ QuestionCount >= 1
        /\ quiz_state # None
        /\ Val(quiz_state).current_qindex = QuestionCount - 1)
       => /\ \E i \in 1..Len(emitted') : emitted'[i].name = "quiz_finished"
          /\ \A i \in 1..Len(emitted') :
                emitted'[i].name \in {"next_question", "load_next_question"}
                    => emitted'[i].qindex < QuestionCount]_vars

\* C1 witness: an active two-question quiz at index 1 whose last advance
\* broadcast "quiz_finished"
C1_Witness ==
    /\ quiz.is_active
    /\ QuestionCount = 2
    /\ quiz_state # None
    /\ Val(quiz_state).current_qindex = 1
    /\ lastOp.op = "admin_next_question"
    /\ emitted = <<Event("quiz_finished", 0)>>

\* C2: in every state of a live session of a quiz with n >= 1 questions the
\* session state exists and its current question index lies in 0..n-1.
C2_IndexInRange ==
    (quiz.is_active /\ QuestionCount >= 1)
        => /\ quiz_state # None
           /\ Val(quiz_state).current_qindex >= 0
           /\ Val(quiz_state).current_qindex <= QuestionCount - 1

\* C2 witness: a live two-question session that a "previous question" event
\* has left at index 0
C2_Witness ==
    /\ quiz.is_active
    /\ QuestionCount = 2
    /\ quiz_state # None
    /\ Val(quiz_state).current_qindex = 0
    /\ lastOp.op = "admin_previous_question"
    /\ emitted = <<Event("previous_question", 0)>>

\* C3: at most one PartialAnswer exists per (question, participant); a
\* submission leaves exactly one row for its question and participant, and that
\* row carries the correctness, the time taken and the points of this
\* submission: the points calculate_question_points gives it, plus the rank
\* bonus of this ranking pass when it is correct, and nothing of the row it
\* replaced.
C3_OneAnswerLastWriteWins ==
    /\ \A question_id \in 1..MaxQuestions, student \in Students :
            BagCardinality(RowsFor(answers, question_id, student)) <= 1
    /\ (lastOp.op = "attempt_quiz" /\ lastOp.form # None)
        => LET form       == Val(lastOp.form)
               question   == questions[form.question_id]
               is_correct == check_answer_correctness(question, form.selected_answer)
               points     == calculate_question_points(question, is_correct,
                                                       form.time_taken)
               rivals     == Filter(answers, {r \in DOMAIN answers :
                                 /\ r.question_id = form.question_id
                                 /\ r.student # form.student
                                 /\ r.is_correct})
               faster     == BagCardinality(Filter(rivals, {r \in DOMAIN rivals :
                                 r.time_taken < form.time_taken}))
               tied       == BagCardinality(Filter(rivals, {r \in DOMAIN rivals :
                                 r.time_taken = form.time_taken}))
           IN  \E r \in DOMAIN answers :
                /\ r.question_id = form.question_id /\ r.student = form.student
                /\ r.is_correct = is_correct
                /\ r.time_taken = form.time_taken
                /\ IF is_correct
                   THEN \E rank \in (faster + 1)..(faster + tied + 1) :
                          r.points = points + (IF rank <= Len(BonusPoints)
                                               THEN BonusPoints[rank] ELSE 0)
                   ELSE r.points = 0

\* C3 witness: a resubmission has deleted the participant's correct answer to
\* question 1, from which the Result was made, and left an incorrect one
C3_Witness ==
    /\ lastOp.op = "attempt_quiz"
    /\ lastOp.cleared = 1
    /\ QuestionCount = 1
    /\ BagCardinality(RowsFor(answers, 1, "s1")) = 1
    /\ \E r \in DOMAIN answers : r.question_id = 1 /\ ~r.is_correct /\ r.points = 0
    /\ \E r \in DOMAIN results : r.student = "s1" /\ r.score = 1

\* C4: at most one Result exists per participant, however often the final
\* question is submitted.
C4_OneResultPerParticipant ==
    \A student \in Students :
        BagCardinality(Filter(results, {r \in DOMAIN results : r.student = student})) <= 1

\* C4 witness: the final question has been submitted again after the Result was
\* made: the Result on file is no longer the one the answers on file give
C4_Witness ==
    /\ lastOp.op = "attempt_quiz"
    /\ lastOp.outcome = "complete"
    /\ lastOp.cleared = 1
    /\ ExistingResult(results, "s1")
    /\ ResultRow(answers, "s1") \notin DOMAIN results

\* the scenario of C5: two questions of base 1.0 without per-question timing,
\* question 1 answered correctly and nothing else on file, and the participant
\* now submits an incorrect answer to question 2 as the last question
C5_Scenario ==
    /\ QuestionCount = 2
    /\ ~quiz.has_timer
    /\ \A i \in 1..2 : questions[i].points = 10
    /\ ~ExistingResult(results, "s1")
    /\ BagCardinality(answers) = 1
    /\ \E r \in DOMAIN answers : r.question_id = 1 /\ r.student = "s1" /\ r.is_correct
    /\ \E time_taken \in TimeTakenInputs : Submit("s1", 1, 2, "2", time_taken)

\* C5 (as the code has it): the scenario creates a Result with score 1, total 2
\* and total_points 4.0: the base 1.0 of question 1 plus the rank-1 bonus of 3
\* that the ranking pass gave the only correct answer.
C5_ScenarioResult ==
    [][C5_Scenario
       => \E r \in DOMAIN results' :
            r.student = "s1" /\ r.score = 1 /\ r.total = 2 /\ r.total_points = 40]_vars

\* C5 as stated: the scenario creates a Result with score 1, total 2 and
\* total_points 1.0.
C5_AsStated ==
    [][C5_Scenario
       => \E r \in DOMAIN results' :
            r.student = "s1" /\ r.score = 1 /\ r.total = 2 /\ r.total_points = 10]_vars

\* C5 witness: the scenario has run: question 1 correct and question 2
\* incorrect on file, and the Result made from them
C5_Witness ==
    /\ lastOp.op = "attempt_quiz"
    /\ lastOp.outcome = "complete"
    /\ lastOp.cleared = 0
    /\ QuestionCount = 2
    /\ ~quiz.has_timer
    /\ \E r \in DOMAIN answers : r.question_id = 1 /\ r.is_correct
    /\ \E r \in DOMAIN answers : r.question_id = 2 /\ ~r.is_correct
    /\ ResultRow(answers, "s1") \in DOMAIN results
    /\ \E r \in DOMAIN results : r.score = 1 /\ r.total = 2 /\ r.total_points = 40

\* C6 as stated: a start (the route or the "admin_start_quiz" event) of a quiz
\* that is not published leaves is_active false and deletes no PartialAnswer.
C6_UnpublishedNeverStarts ==
    [][(StartStep /\ ~quiz.is_published)
       => (~quiz'.is_active /\ answers' = answers)]_vars

\* C7 as stated: a start (the route or the "admin_start_quiz" event) of a quiz
\* that is already active changes nothing: the PartialAnswer rows, the current
\* question index and the start timestamps stay as they were.
C7_StartOfActiveChangesNothing ==
    [][(StartStep /\ quiz.is_active)
       => /\ answers' = answers
          /\ quiz_state' # None
          /\ Val(quiz_state').current_qindex = Val(quiz_state).current_qindex
          /\ Val(quiz_state').started_at = Val(quiz_state).started_at
          /\ Val(quiz_state').overall_started_at = Val(quiz_state).overall_started_at]_vars

\* C8 as stated: in every reachable state is_active implies is_published and at
\* least one question.
C8_ActiveImpliesPublished ==
    quiz.is_active => (quiz.is_published /\ QuestionCount >= 1)

\* C9: in every reachable state is_paused implies is_active.
C9_PausedImpliesActive == quiz.is_paused => quiz.is_active

\* C9 witness: a live session that pause_quiz has paused
C9_Witness ==
    /\ lastOp = Op("pause_quiz", "success")
    /\ quiz.is_paused
    /\ quiz.is_active
    /\ Val(quiz.paused_at) = now

\* C10: right after a successful start no PartialAnswer of the quiz exists, the
\* session state exists with current question index 0, and the quiz is active
\* and not paused.
C10_FreshStart ==
    (lastOp.op \in {"start_quiz", "admin_start_quiz"} /\ lastOp.outcome = "success")
        => /\ answers = EmptyBag
           /\ quiz_state # None
           /\ Val(quiz_state).current_qindex = 0
           /\ quiz.is_active
           /\ ~quiz.is_paused

\* C10 witness: a successful start by the route that discarded answers of an
\* earlier session
C10_Witness ==
    /\ lastOp.op = "start_quiz"
    /\ lastOp.outcome = "success"
    /\ lastOp.cleared > 0

\* the overall timer of the quiz is running: enabled, and started by a start
TimerRunning ==
    /\ quiz.has_timer
    /\ OverallTimerEnabled
    /\ quiz_state # None
    /\ Val(quiz_state).overall_started_at # None

\* duration - (now - overall_started_at - paused_seconds), never below 0
RemainingExcludingPauses ==
    AtLeastZero(Val(quiz.overall_timer) * 60
                - (now - Val(Val(quiz_state).overall_started_at) - quiz.paused_seconds))

\* C11 as stated: every remaining-time value the server renders for a running
\* overall timer, in the host's live-control view and in the participant's
\* question view, is duration - (now - overall_started_at - paused_seconds).
C11_RemainingExcludesPauses ==
    (/\ TimerRunning
     /\ quiz.is_active
     /\ lastOp.op \in {"live_control", "attempt_quiz_get"}
     /\ lastOp.outcome = "render")
        => lastOp.remaining = Some(RemainingExcludingPauses)

\* C12 as stated: resume on a paused session of a published quiz adds
\* now - paused_at to paused_seconds, clears paused_at and leaves the quiz
\* active and not paused.
C12_ResumeAccountsPause ==
    [][(lastOp'.op = "resume_quiz" /\ quiz.is_published /\ quiz.is_active /\ quiz.is_paused)
       => /\ quiz'.paused_seconds = quiz.paused_seconds + (now - Val(quiz.paused_at))
          /\ quiz'.paused_at = None
          /\ quiz'.is_active
          /\ ~quiz'.is_paused]_vars

\* C13: pause on a quiz that is already paused or not active, and resume on a
\* quiz that is not paused, leave the whole Quiz row as it was (paused_at,
\* paused_seconds and every lifecycle flag) and report no error.
C13_PauseResumeNoOps ==
    [][/\ (lastOp'.op = "pause_quiz" /\ (quiz.is_paused \/ ~quiz.is_active))
            => (quiz' = quiz /\ lastOp'.outcome = "none")
       /\ (lastOp'.op = "resume_quiz" /\ ~quiz.is_paused)
            => (quiz' = quiz /\ lastOp'.outcome = "none")]_vars

\* C13 witness: a second pause, one tick after the first, has left paused_at
\* at the time of the first
C13_Witness ==
    /\ lastOp = Op("pause_quiz", "none")
    /\ quiz.is_active
    /\ quiz.is_paused
    /\ Val(quiz.paused_at) < now

\* C14 as stated: right after a stop or a reset has destroyed the session
\* state, a next-question or previous-question event creates no session state
\* and broadcasts nothing.
C14_AdvanceAfterStopIsNoOp ==
    [][(/\ lastOp.op \in {"stop_quiz", "reset_quiz"}
        /\ quiz_state = None
        /\ lastOp'.op \in {"admin_next_question", "admin_previous_question"})
       => (quiz_state' = None /\ emitted' = <<>>)]_vars

\* C15 as stated: the session store holds an entry for the quiz exactly when
\* the quiz is active.
C15_StateIffActive == (quiz_state # None) <=> quiz.is_active

\* C16 (as the code has it): while the quiz stays active and is not started
\* again, the current question index gets smaller only by a "previous
\* question" event, and then by exactly one; a next-question event and the
\* routes never make it smaller.
C16_IndexFallsOnlyByPrevious ==
    [][(/\ quiz.is_active /\ quiz'.is_active
        /\ ~StartStep
        /\ quiz_state # None /\ quiz_state' # None
        /\ Val(quiz_state').current_qindex < Val(quiz_state).current_qindex)
       => /\ lastOp'.op = "admin_previous_question"
          /\ Val(quiz_state').current_qindex = Val(quiz_state).current_qindex - 1]_vars

\* C16 as stated: while the quiz stays active and is not started again, no
\* step makes the current question index smaller.
C16_AsStated ==
    [][(/\ quiz.is_active /\ quiz'.is_active
        /\ ~StartStep
        /\ quiz_state # None /\ quiz_state' # None)
       => Val(quiz_state').current_qindex >= Val(quiz_state).current_qindex]_vars

\* C16 witness: a live session of a published quiz with the most questions
\* that a "previous question" event has put at the index before the last
C16_Witness ==
    /\ quiz.is_published
    /\ quiz.is_active
    /\ QuestionCount = MaxQuestions
    /\ quiz_state # None
    /\ Val(quiz_state).current_qindex = MaxQuestions - 2
    /\ lastOp.op = "admin_previous_question"
    /\ emitted = <<Event("previous_question", MaxQuestions - 2)>>

\* C17: stop has no precondition, and right after it is_active, is_published
\* and is_paused are false, paused_at is cleared, paused_seconds is 0, the quiz
\* has no session state and "quiz_stopped" has been broadcast.
C17_StopClearsEverything ==
    lastOp.op = "stop_quiz"
        => /\ lastOp.outcome = "success"
           /\ ~quiz.is_active /\ ~quiz.is_published /\ ~quiz.is_paused
           /\ quiz.paused_at = None
           /\ quiz.paused_seconds = 0
           /\ quiz_state = None
           /\ emitted = <<Event("quiz_stopped", 0)>>

\* C17 witness: a quiz that had been published has been stopped
C17_Witness ==
    /\ lastOp.op = "stop_quiz"
    /\ quiz.publish_count >= 1
    /\ ~quiz.is_published

C19_JoinCodeStable ==
    [][lastOp'.op = "publish_quiz"
       => /\ quiz.join_code # "" => quiz'.join_code = quiz.join_code
          /\ lastOp'.outcome = "success"
                => quiz'.publish_count = quiz.publish_count + 1]_vars

\* C19 witness: the quiz has been published a second time and has a join code
C19_Witness ==
    /\ lastOp = Op("publish_quiz", "success")
    /\ quiz.publish_count = 2
    /\ quiz.join_code \in JoinCodes

\* C20: a publish of a quiz that is not locked, or that has no question, is
\* rejected with an error and changes neither the Quiz row (is_published,
\* publish_count, join_code, pause accounting) nor the session store.
C20_PublishRejected ==
    [][(lastOp'.op = "publish_quiz" /\ (~quiz.is_locked \/ QuestionCount = 0))
       => /\ lastOp'.outcome = "error"
          /\ quiz' = quiz
          /\ quiz_state' = quiz_state]_vars

\* C20 witness: the publish of a locked quiz without questions was rejected
C20_Witness ==
    /\ lastOp = Op("publish_quiz", "error")
    /\ quiz.is_locked
    /\ QuestionCount = 0
    /\ ~quiz.is_published

\* the graded form and what the grading returned, in a state that follows
\* GradeAnswer
Graded == lastOp.op = "grade"

GradedForm == Val(lastOp.form)

GradedValue == Val(lastOp.value)

\* base_points = question.points or 1.0, in tenths
GradedBasePoints == IF questions[1].points = 0 THEN 10 ELSE questions[1].points

C24_FullCreditIsBasePoints ==
    (/\ Graded
     /\ questions[1].question_type = "checkbox"
     /\ GradedValue.is_correct
     /\ StudentAnswers(GradedForm.selected_answer) # None
     /\ LET chosen  == {Val(StudentAnswers(GradedForm.selected_answer))[i] :
                          i \in 1..Len(Val(StudentAnswers(GradedForm.selected_answer)))}
            correct == {questions[1].correct_answers[i] :
                          i \in 1..Len(questions[1].correct_answers)}
        IN  Cardinality(chosen \cap correct) = Cardinality(correct))
        => GradedValue.question_points = GradedBasePoints

\* C25: for a multi-select question the answer is correct if and only if the
\* submitted value is a list of markers whose set equals the set of the
\* correct markers: a strict subset, a strict superset or an overlapping
\* selection is incorrect, order and repetition do not matter, and an empty,
\* "No Answer" or unparsable value is incorrect.
C25_ExactSetEquality ==
    (Graded /\ questions[1].question_type = "checkbox")
        => LET selected == GradedForm.selected_answer
               parsed   == StudentAnswers(selected)
               correct  == {questions[1].correct_answers[i] :
                               i \in 1..Len(questions[1].correct_answers)}
           IN  GradedValue.is_correct
                 <=> /\ selected \notin {"", "No Answer"}
                     /\ parsed # None
                     /\ {Val(parsed)[i] : i \in 1..Len(Val(parsed))} = correct

\* C25 witness: against the correct options 1 and 2, the selection 1, 1, 2
\* (a repetition) was graded correct
C25_Witness ==
    /\ Graded
    /\ questions[1].question_type = "checkbox"
    /\ questions[1].correct_answers = <<1, 2>>
    /\ GradedForm.selected_answer = "[1,1,2]"
    /\ GradedValue.is_correct

\* C21: no answer receives the rank bonus more than once: whatever the
\* participants submitted to a question, the stored points of each correct
\* answer exceed what calculate_question_points gives it by at most 3.
C21_BonusAtMostOnce ==
    \A r \in DOMAIN answers :
        r.is_correct
            => r.points - calculate_question_points(questions[r.question_id], TRUE,
                                                    r.time_taken) <= 30

\* C22: every stored answer that is incorrect has points 0, whatever its time
\* taken and whatever ranking passes other submissions have triggered since.
C22_IncorrectIsWorthNothing ==
    \A r \in DOMAIN answers : ~r.is_correct => r.points = 0

\* C22 witness: s1's incorrect answer is stored with 0 points after s2's
\* correct submission to the same question ran a ranking pass
C22_Witness ==
    /\ lastOp.op = "attempt_quiz" /\ lastOp.form # None
    /\ Val(lastOp.form).student = "s2"
    /\ \E r \in DOMAIN answers :
            r.student = "s2" /\ r.question_id = 1 /\ r.is_correct /\ r.points > 10
    /\ \E r \in DOMAIN answers :
            r.student = "s1" /\ r.question_id = 1 /\ ~r.is_correct /\ r.points = 0

\* C26: the quiz leaderboard is ordered by descending total points, then
\* descending correct count, then ascending total time, and its entries carry
\* the ranks 1, 2, ... in that order.
C26_LeaderboardOrdered ==
    (lastOp.op = "api_leaderboard" /\ lastOp.outcome = "json")
        => LET l == Val(lastOp.value)
           IN  /\ \A i, j \in 1..Len(l) :
                    i < j => LexLeq(<<0 - l[i].points, 0 - l[i].correct, l[i].time>>,
                                    <<0 - l[j].points, 0 - l[j].correct, l[j].time>>)
               /\ \A i \in 1..Len(l) : "rank" \in DOMAIN l[i] /\ l[i].rank = i

\* C27: while the quiz's global leaderboard flag is unset, the quiz leaderboard
\* that is built and returned is the empty list, however many answers the quiz
\* has.
C27_NoLeaderboardWhenFlagUnset ==
    (lastOp.op = "api_leaderboard" /\ GlobalLeaderboardOff)
        => Val(lastOp.value) = <<>>

\* C27 witness: both participants have an answer stored, the flag is unset and
\* the leaderboard returned is empty
C27_Witness ==
    /\ lastOp.op = "api_leaderboard"
    /\ quiz.show_leaderboard_global = None
    /\ BagCardinality(answers) = 2
    /\ Val(lastOp.value) = <<>>

\* C28: leaderboard visibility is the AND of the quiz-global flag and the
\* per-question flag: should_show_leaderboard is true exactly when both are
\* set, and the per-question leaderboard is hidden, and empty, exactly when one
\* of them is unset.
C28_VisibilityIsConjunction ==
    /\ (lastOp.op = "attempt_quiz" /\ lastOp.form # None)
        => (Val(lastOp.value).show_leaderboard
              <=> /\ quiz.show_leaderboard_global = Some(TRUE)
                  /\ questions[Val(lastOp.form).question_id].show_leaderboard)
    /\ (/\ lastOp.op = "api_question_leaderboard"
        /\ Val(lastOp.form).question_id \in 1..QuestionCount)
        => /\ lastOp.outcome = "json"
                <=> /\ quiz.show_leaderboard_global = Some(TRUE)
                    /\ questions[Val(lastOp.form).question_id].show_leaderboard
           /\ lastOp.outcome # "json" => Val(lastOp.value) = <<>>

\* C28 witness: the global flag is set, the question's flag is not, a correct
\* answer to the question is stored, and its leaderboard came back hidden
C28_Witness ==
    /\ lastOp.op = "api_question_leaderboard"
    /\ Val(lastOp.form).question_id = 1
    /\ quiz.show_leaderboard_global = Some(TRUE)
    /\ ~questions[1].show_leaderboard
    /\ \E r \in DOMAIN answers : r.question_id = 1 /\ r.is_correct
    /\ lastOp.outcome = "disabled"
    /\ Val(lastOp.value) = <<>>

\* a state that follows a question leaderboard that was shown
BoardShown == lastOp.op = "api_question_leaderboard" /\ lastOp.outcome = "json"

\* the stored answer a question-leaderboard entry stands for
EntryRow(question_id, entry) ==
    CHOOSE r \in DOMAIN answers : r.question_id = question_id /\ r.student = entry.student

\* The question leaderboard just shown lists correct answers of its question
\* only, each participant once, with the stored time and points; it holds the
\* first 10 of them, or all when there are fewer, ranked 1..k, in this order:
\* ascending time taken, then ascending submission time when by_time holds,
\* ascending submission time alone when it does not.
BoardInOrder(by_time) ==
    LET q       == Val(lastOp.form).question_id
        l       == Val(lastOp.value)
        correct == {r \in DOMAIN answers : r.question_id = q /\ r.is_correct}
        listed  == {r \in correct : \E i \in 1..Len(l) : l[i].student = r.student}
        NotAfter(a, b) ==
            IF by_time
            THEN \/ a.time_taken < b.time_taken
                 \/ a.time_taken = b.time_taken /\ a.submitted_at <= b.submitted_at
            ELSE a.submitted_at <= b.submitted_at
    IN  /\ \A i \in 1..Len(l) :
                \E r \in correct : /\ r.student = l[i].student
                                    /\ r.time_taken = l[i].time_taken
                                    /\ r.points = l[i].points
        /\ \A i, j \in 1..Len(l) : i # j => l[i].student # l[j].student
        /\ Len(l) <= 10
        /\ Len(l) = (IF Cardinality(correct) < 10 THEN Cardinality(correct) ELSE 10)
        /\ \A i \in 1..Len(l) : l[i].rank = i
        /\ \A i, j \in 1..Len(l) : i < j => NotAfter(EntryRow(q, l[i]), EntryRow(q, l[j]))
        /\ \A r \in correct \ listed :
                \A i \in 1..Len(l) : NotAfter(EntryRow(q, l[i]), r)

\* C29 as amended: when both visibility flags are set, the per-question
\* leaderboard lists only correct respondents of that question, ordered by
\* ascending time taken and then ascending submission timestamp on a quiz with
\* per-question timing and by ascending submission timestamp alone on a quiz
\* without it; it holds at most 10 entries, the first 10 in that order, and
\* they carry the ranks 1..k.
C29_QuestionLeaderboardOrder == BoardShown => BoardInOrder(quiz.has_timer)

\* C29 as stated: the order is ascending time taken, then ascending submission
\* timestamp, on every quiz.
C29_AsStated == BoardShown => BoardInOrder(TRUE)

\* C29 witness: on a quiz without per-question timing, eleven participants
\* have a correct answer to question 1 and its leaderboard came back with ten
\* entries, the tenth ranked 10
C29_Witness ==
    /\ BoardShown
    /\ ~quiz.has_timer
    /\ Val(lastOp.form).question_id = 1
    /\ BagCardinality(CorrectAnswers(answers, 1)) = 11
    /\ Len(Val(lastOp.value)) = 10
    /\ Val(lastOp.value)[10].rank = 10

\* the events of a broadcast
Broadcasts(events, names) == \E i \in 1..Len(events) : events[i].name \in names

\* C30: persist, then broadcast.  A step that broadcasts "begin_quiz",
\* "join_quiz_room" or "quiz_started" finds the quiz already persisted as
\* active and not paused, a step that broadcasts "quiz_stopped" finds it
\* already persisted as inactive and unpublished, and neither changes the
\* persisted row: no broadcast comes before its commit.
C30_PersistThenBroadcast ==
    [][/\ Broadcasts(emitted', {"begin_quiz", "join_quiz_room", "quiz_started"})
            => quiz.is_active /\ ~quiz.is_paused /\ quiz' = quiz
       /\ Broadcasts(emitted', {"quiz_stopped"})
            => ~quiz.is_active /\ ~quiz.is_published /\ quiz' = quiz]_vars

\* C30 witness: start_quiz has returned after its two broadcasts, with the
\* quiz persisted as active
C30_Witness ==
    /\ lastOp.op = "start_quiz" /\ lastOp.at = "done"
    /\ emitted = <<Event("begin_quiz", 0), Event("join_quiz_room", 0)>>
    /\ quiz.is_active

\* C31: a start is atomic under a commit failure.  A start that ends with a
\* failed commit has deleted no SubmittedAnswer and has written no session
\* entry, and the quiz is not active after it.
C31_StartIsAtomic ==
    [][lastOp'.op = "start_quiz" /\ lastOp'.outcome = "exception"
         => /\ answers' = answers
            /\ quiz_state' = quiz_state
            /\ ~quiz'.is_active]_vars

\* the form of the submission just handled lacks question_id, or carries for
\* a multi-select question a selection that json.loads cannot read
MalformedSubmission(op) ==
    /\ op.op = "attempt_quiz" /\ op.form # None
    /\ \/ "question_id" \notin DOMAIN Val(op.form)
       \/ /\ questions[Val(op.form).question_id].question_type = "checkbox"
          /\ Val(op.form).selected_answer \notin {"", "No Answer"}
          /\ StudentAnswers(Val(op.form).selected_answer) = None

\* C32: a malformed submission is rejected without a state change.  The
\* SubmittedAnswers with their points and the SessionResults are the same
\* after it as before it.
C32_MalformedChangesNothing ==
    [][MalformedSubmission(lastOp') => answers' = answers /\ results' = results]_vars

\* C33: two concurrent submissions of the last question by one participant
\* never end with two SessionResults for the participant, whatever the
\* interleaving of their queries and commits.
C33_NoSecondResultUnderRace ==
    (\A r \in DOMAIN requests : requests[r].at \in {"done", "exception"})
        => \A student \in Students :
              BagCardinality(Filter(results, {row \in DOMAIN results :
                                                  row.student = student})) <= 1

\* the current question index of the session
CurrentIndex == Val(quiz_state).current_qindex

\* C34: a session the host advances to its end.  From index 0 of an active
\* quiz with n questions, every advance below the last index broadcasts
\* "load_next_question" with the next index and moves there, so that the n-1
\* broadcasts carry 1..n-1 in order; "quiz_finished" is eventually broadcast
\* at index n-1; every advance at the last index broadcasts "quiz_finished"
\* and leaves the index; and nothing else moves the index.
C34_SessionRunsToFinish ==
    /\ [][IF AdvanceStep
          THEN IF CurrentIndex < QuestionCount - 1
               THEN /\ emitted' = <<Event("load_next_question", CurrentIndex + 1)>>
                    /\ quiz_state' # None
                    /\ Val(quiz_state').current_qindex = CurrentIndex + 1
               ELSE /\ emitted' = <<Event("quiz_finished", 0)>>
                    /\ quiz_state' = quiz_state
          ELSE quiz_state' = quiz_state]_vars
    /\ <>(/\ lastOp.op = "admin_next_question"
          /\ emitted = <<Event("quiz_finished", 0)>>
          /\ CurrentIndex = QuestionCount - 1)

\* C34 witness: the host has advanced a two-question session to index 1 and
\* then once more, which broadcast "quiz_finished"
C34_Witness ==
    /\ QuestionCount = 2
    /\ quiz.is_active
    /\ CurrentIndex = 1
    /\ lastOp.op = "admin_next_question"
    /\ emitted = <<Event("quiz_finished", 0)>>
    /\ now > 0

\* C35: a submission changes the SubmittedAnswers only while the quiz is
\* active, published and not paused.  A submission that arrives in any other
\* state leaves every SubmittedAnswer, its points and every SessionResult as
\* they were.
C35_SubmissionsOnlyWhileLive ==
    [][(/\ lastOp'.op = "attempt_quiz"
        /\ ~(quiz.is_active /\ quiz.is_published /\ ~quiz.is_paused))
       => answers' = answers /\ results' = results]_vars

\* C35 witness: a submission has been turned away while the quiz is paused
\* with the participant's answer of before the pause on file
C35_Witness ==
    /\ lastOp.op = "attempt_quiz"
    /\ lastOp.outcome = "closed"
    /\ quiz.is_active /\ quiz.is_published /\ quiz.is_paused
    /\ answers # EmptyBag

\* C36: rank bonuses respect the order of speed.  Of two correct answers to
\* the question for which the score calculator returns the same, the one
\* with the strictly smaller time taken holds at least as many points as the
\* other, once every participant has submitted at most once.
C36_FasterHoldsNoLess ==
    \A a \in DOMAIN answers, b \in DOMAIN answers :
        (/\ a.question_id = b.question_id
         /\ a.is_correct /\ b.is_correct
         /\ calculate_question_points(questions[a.question_id], TRUE, a.time_taken)
              = calculate_question_points(questions[b.question_id], TRUE, b.time_taken)
         /\ a.time_taken < b.time_taken)
        => a.points >= b.points

\* the remaining time the control page showed at the moment of the pause
\* that is on: the page's value with the clock read at paused_at
RemainingAtPause ==
    AtLeastZero(Val(quiz.overall_timer) * 60
                - (Val(quiz.paused_at) - Val(Val(quiz_state).overall_started_at)
                   - quiz.paused_seconds))

\* C37: a paused overall timer stands still.  While time passes and the
\* control page is fetched during one pause of a published quiz, the remaining time the page
\* reports stays the same, and the value it reports right after the resume
\* is not larger than the one at the moment of the pause.
C37_PausedTimerStandsStill ==
    [][/\ (/\ TimerRunning /\ quiz.is_published /\ quiz.is_active /\ quiz.is_paused
           /\ lastOp'.op \in {"tick", "live_control"})
          => LiveControlRemaining' = LiveControlRemaining
       /\ (/\ TimerRunning /\ quiz.is_published /\ quiz.is_active /\ quiz.is_paused
           /\ lastOp'.op = "resume_quiz" /\ lastOp'.outcome = "success")
          => LiveControlRemaining' <= RemainingAtPause]_vars

\* C38: the waiting-room list.  After any joins, leaves and disconnects the
\* list holds each name at most once, holds a name exactly when a connection
\* that joined under it is still connected and has not left, and every
\* broadcast to the waiting room carries the list and its length as count.
C38_WaitingListIsThoseWaiting ==
    /\ \A i \in 1..Len(WaitingList), j \in 1..Len(WaitingList) :
            WaitingList[i] = WaitingList[j] => i = j
    /\ \A username \in Names :
            username \in Members(WaitingList)
                <=> \E sid \in DOMAIN connections :
                        /\ connections[sid].username = username
                        /\ connections[sid].connected
                        /\ connections[sid].waiting
    /\ \A i \in 1..Len(emitted) :
            (emitted[i].name = "update_participants" /\ emitted[i].room = "waiting_room")
                => emitted[i].users = WaitingList /\ emitted[i].count = Len(WaitingList)

\* C39: the SessionResult is the aggregate of the session.  Right after a
\* participant has submitted the last question, a SessionResult of the
\* participant is on file and it carries the correct count, the total time
\* and the total points of the participant's SubmittedAnswers on file, also
\* in a session that follows a reset or a stop of a session the participant
\* completed.
C39_ResultIsSessionAggregate ==
    (lastOp.op = "attempt_quiz" /\ lastOp.outcome = "complete")
        => /\ ExistingResult(results, Val(lastOp.form).student)
           /\ \A row \in DOMAIN results :
                  row.student = Val(lastOp.form).student
                      => row = ResultRow(answers, Val(lastOp.form).student)

====
